---------------------------- MODULE Spec2Model ----------------------------
(***************************************************************************)
(* Model of the download engine of ComfyUI-HMT-Suite                       *)
(* (src/utils/downloader.py): DownloadProgress, FileDownloader.download    *)
(* and FileDownloader._download_part.                                      *)
(*                                                                         *)
(* Two specifications:                                                     *)
(*   PlanSpec  the transfer planner as a pure function of the probed       *)
(*             metadata and the configuration (strategy decision and       *)
(*             byte-range computation), inputs drawn from bounded sets;    *)
(*   Spec      one call of download() as a state machine: the             *)
(*             orchestrating thread, the chunk workers of the thread       *)
(*             pool, the origin server and the filesystem as environment.  *)
(*                                                                         *)
(* Sizes are counted in bytes.  In Spec the files are a few bytes long and *)
(* iter_content delivers one byte per chunk, so that partial writes,       *)
(* short and over-long streams and retries all happen within the bounds.   *)
(***************************************************************************)
EXTENDS Integers, Sequences, FiniteSets, TLC

(***************************************************************************)
(* Bounds of the model (not program constants).                            *)
(***************************************************************************)
\* largest Content-Length the origin advertises in Spec
MaxTotal == 3
\* how many bytes beyond the requested amount the origin may send
MaxExtra == 1
\* the Content-Length of the one large file of Spec, whose origin does not
\* advertise byte ranges: large enough for the 10% margin of the disk
\* preflight to be a whole byte
BigTotal == 10
\* largest Content-Length drawn in PlanSpec (besides the scenario value)
MaxPlanTotal == 12
\* largest worker ceiling drawn in PlanSpec (besides the default)
MaxPlanWorkers == 4
\* largest minimum part size drawn in PlanSpec (besides the default)
MaxPlanMinPart == 4

(***************************************************************************)
(* Program constants.                                                      *)
(***************************************************************************)
\* FileDownloader.__init__: max_workers: int = 16
DefaultMaxWorkers == 16
\* FileDownloader.__init__: min_part_size: int = 1024 * 1024 * 10
DefaultMinPartSize == 1024 * 1024 * 10
\* _download_part: max_retries = 3
max_retries == 3
\* the Content-Length of the scenario of the specification, section 8
ScenarioTotal == 100 * 1000 * 1000

(***************************************************************************)
(* Configuration of the FileDownloader instance that Spec runs: the        *)
(* constructor arguments max_workers and min_part_size, scaled to the      *)
(* byte counts of the model.                                               *)
(***************************************************************************)
max_workers == 2
min_part_size == 1

(***************************************************************************)
(* Small helpers.                                                          *)
(***************************************************************************)
Min(a, b) == IF a <= b THEN a ELSE b
Max(a, b) == IF a >= b THEN a ELSE b

RECURSIVE SumSeq(_)
SumSeq(s) == IF s = <<>> THEN 0 ELSE Head(s) + SumSeq(Tail(s))

(***************************************************************************)
(* Header values are sequences of characters, so that lower() and the      *)
(* substring test of the code are computed, not assumed.                   *)
(***************************************************************************)
\* str.lower() on one character (the letters the headers of the model use)
LowerChar(c) ==
    CASE c = "B" -> "b"
      [] c = "Y" -> "y"
      [] c = "T" -> "t"
      [] c = "E" -> "e"
      [] c = "S" -> "s"
      [] c = "N" -> "n"
      [] c = "O" -> "o"
      [] OTHER -> c

\* str.lower()
Lower(s) == [i \in 1..Len(s) |-> LowerChar(s[i])]

\* the Python test  sub in s
Contains(s, sub) ==
    \E i \in 0..(Len(s) - Len(sub)) :
        \A j \in 1..Len(sub) : s[i + j] = sub[j]

\* the Accept-Ranges header values the origin of the model may send;
\* <<>> is the absent header (headers.get('Accept-Ranges', ''))
ARHeaders ==
    { <<>>,
      <<"b","y","t","e","s">>,
      <<"B","y","t","e","s">>,
      <<"B","Y","T","E","S">>,
      <<"n","o","n","e">>,
      <<"b","y","t","e">>,
      <<"0","-","b","y","t","e","s">> }

\* download(), lines 294-296 / 301-303:
\*   accept_ranges_header = headers.get('Accept-Ranges', '').lower()
\*   if 'bytes' in accept_ranges_header: accept_ranges = True
AcceptsRanges(hdr) == Contains(Lower(hdr), <<"b","y","t","e","s">>)

\* download(), lines 323-325:
\*   if accept_ranges and total_size > self.min_part_size: use_parallel = True
\* (mutant: a size equal to the minimum also goes parallel)
UseParallelNonStrict(accept, total, minPart) == accept /\ total >= minPart
UseParallel(accept, total, minPart) == accept /\ total > minPart

\* download(), lines 334-340: the number of parts
\* (mutant: the quotient is rounded up)
NumWorkersRoundedUp(total, ceiling, minPart) ==
    IF total \div ceiling < minPart
    THEN Max(1, (total \div minPart) + 1)
    ELSE ceiling
NumWorkers(total, ceiling, minPart) ==
    IF total \div ceiling < minPart
    THEN Max(1, total \div minPart)
    ELSE ceiling

\* download(), lines 335/340: part_size = total_size // num_workers
\* (mutant: the quotient is rounded up)
PartSizeRoundedUp(total, ceiling, minPart) ==
    (total + NumWorkers(total, ceiling, minPart) - 1)
        \div NumWorkers(total, ceiling, minPart)
PartSize(total, ceiling, minPart) ==
    total \div NumWorkers(total, ceiling, minPart)

\* download(), lines 344-350: the list of (start, end) byte ranges
\* (mutant: the last range does not absorb the remainder)
ComputeRangesNoRemainder(total, ceiling, minPart) ==
    LET n  == NumWorkers(total, ceiling, minPart)
        ps == PartSize(total, ceiling, minPart)
    IN  [i \in 1..n |-> << (i - 1) * ps, (i - 1) * ps + ps - 1 >>]
ComputeRanges(total, ceiling, minPart) ==
    LET n  == NumWorkers(total, ceiling, minPart)
        ps == PartSize(total, ceiling, minPart)
    IN  [i \in 1..n |->
            << (i - 1) * ps,
               IF i = n THEN total - 1 ELSE (i - 1) * ps + ps - 1 >>]

\* expected_part_size = end - start + 1   (line 403)
RangeLen(r) == r[2] - r[1] + 1

\* DownloadProgress.update, line 112:
\*   self.percentage = int((self.downloaded / self.total_size) * 100)
\* For every pair of downloaded and total_size that Spec reaches the
\* double-precision result of the code equals the integer quotient below
\* (the first pairs for which it is one less are 23 of 5 and 23 of 10).
\* In IEEE-754 double arithmetic the quotient downloaded / total_size is
\* rounded and so is its product with 100; for the pairs listed here the
\* product falls just below the integer downloaded * 100 / total_size and
\* int() truncates it to one less.  The list holds every such pair with both
\* numbers at most 64; for all other pairs up to 64 the result is the exact
\* quotient rounded down.
FloatRoundsDown ==
    { <<23, 5>>, <<41, 5>>, <<46, 5>>, <<51, 5>>,
      <<23, 10>>, <<41, 10>>, <<46, 10>>, <<51, 10>>,
      <<23, 20>>, <<41, 20>>, <<46, 20>>, <<51, 20>>,
      <<29, 25>>, <<57, 25>>, <<58, 25>>,
      <<46, 40>>,
      <<29, 50>>, <<57, 50>>, <<58, 50>> }

PctOf(downloaded, total) ==
    IF << downloaded, total >> \in FloatRoundsDown
    THEN (downloaded * 100) \div total - 1
    ELSE (downloaded * 100) \div total


(***************************************************************************)
(* Files.  The content of a file is the sequence of its bytes; a byte      *)
(* downloaded from the origin is named by its offset in the remote file,   *)
(* a byte of the file that was at the destination before the call is -1.   *)
(***************************************************************************)
NoFile == [exists |-> FALSE, data |-> <<>>]
File(d) == [exists |-> TRUE, data |-> d]
OldData == <<-1, -1>>

\* Path.stat().st_size
Size(f) == Len(f.data)

\* verify_part_size(part_path, expected_size), lines 78-92
\* (mutant: only the existence of the part is tested)
verify_part_size_exists(f, expected) == f.exists
verify_part_size(f, expected) == f.exists /\ Size(f) = expected

\* verify_file_size(file_path, expected_size, tolerance), lines 49-75
\* (mutant: one byte more than the tolerance is accepted)
verify_file_size_lenient(f, expected, tolerance) ==
    /\ f.exists
    /\ LET diff == Size(f) - expected
       IN  (IF diff < 0 THEN -diff ELSE diff) <= tolerance + 1
verify_file_size(f, expected, tolerance) ==
    /\ f.exists
    /\ LET diff == Size(f) - expected
       IN  (IF diff < 0 THEN -diff ELSE diff) <= tolerance

\* check_disk_space(path, required_bytes), lines 36-46; unavailable is the
\* case in which shutil.disk_usage raises.  int(required_bytes * 1.1) equals
\* the integer quotient below for every required_bytes below 60.
\* (mutant: no margin)
check_disk_space_no_margin(free, required, unavailable) ==
    IF unavailable THEN TRUE ELSE free >= required
check_disk_space(free, required, unavailable) ==
    IF unavailable THEN TRUE ELSE free >= (required * 11) \div 10

(***************************************************************************)
(* State.                                                                  *)
(***************************************************************************)
VARIABLES
    \* ---- PlanSpec: the planner applied to drawn inputs
    p_pc,           \* "input", "decided", "planned"
    p_header,       \* the Accept-Ranges header of the probe response
    p_total,        \* the Content-Length of the probe response (0: absent)
    p_ceiling,      \* self.max_workers
    p_min,          \* self.min_part_size
    p_accept,       \* accept_ranges
    p_parallel,     \* use_parallel
    p_ranges,       \* ranges
    \* ---- Spec: one call of download()
    pc,             \* position of the orchestrating thread
    overwrite,      \* argument overwrite
    filename,       \* "none" until the filename is known, then "name"
    has_callback,   \* whether progress_callback was passed
    file_path,      \* "unbound" until line 264 assigns file_path
    head_resp,      \* "none" (None), "bad" (status >= 400, falsy), "ok"
    total_size,     \* local total_size
    accept_ranges,  \* local accept_ranges
    use_parallel,   \* local use_parallel
    ranges,         \* local ranges: sequence of <<start, end>>
    progress,       \* self.progress (DownloadProgress)
    dest,           \* the file at file_path
    dest_before,    \* the file that was at file_path when download() began
    tmp_out,        \* the staging file file_path + '.tmp'
    temp_dir,       \* whether the directory .tmp_<filename>_<time> exists
    part,           \* the files temp_dir/part_<i>
    wpc,            \* position of each chunk worker
    attempt,        \* loop variable attempt of each chunk worker
    seen,           \* futures as_completed has yielded so far, in order
    requests,       \* kinds of HTTP requests issued so far
    exc,            \* message of the exception being handled
    disk_stat,      \* what shutil.disk_usage gave check_disk_space
    result,         \* the dictionary download() returned
    \* ---- GitSpec: one call of GitHubHandler.download_repository()
    h_pc,           \* position in download_repository
    h_url,          \* argument url, as a sequence of pieces of its text
    h_extract,      \* argument extract
    h_callback,     \* whether progress_callback was passed
    h_parsed,       \* local parsed
    h_dirs,         \* what is at each of possible_folders
    h_idx,          \* index of the for loop over possible_folders
    h_zip,          \* whether <destination_folder>/<repo>.zip exists
    h_extracted,    \* number of extractall() calls that completed
    h_downloads,    \* number of calls of file_downloader.download()
    h_progress,     \* self.progress of the handler
    h_exc,          \* message of the exception being handled
    h_result,       \* the dictionary download_repository() returned
    \* ---- ProgSpec: one DownloadProgress object and its update() callers
    u_pc,           \* position of each caller inside update()
    u_delta,        \* argument downloaded_delta of each caller
    u_local,        \* the value of self.downloaded each caller loaded
    u_lock,         \* holder of self._lock (0: free)
    u_total,        \* self.total_size
    u_downloaded,   \* self.downloaded
    u_percentage,   \* self.percentage
    u_sum,          \* sum of the deltas passed to update() so far
    \* ---- MonSpec: the progress monitor thread of a parallel transfer
    m_pc,           \* position of monitor_progress
    m_stop,         \* the flag stop_monitor
    m_last_pct,     \* local last_pct
    m_observed,     \* the percentage the callback read at its last call
    \* ---- PairSpec: two calls of download() into one destination folder
    c_now,          \* time.time(), in whole seconds
    t_pc,           \* position of each transfer
    t_filename,     \* local filename of each transfer
    t_parallel,     \* local use_parallel of each transfer
    t_temp_dir,     \* local temp_dir of each transfer
    t_holds         \* temporary paths each transfer created and still uses

planVars == << p_pc, p_header, p_total, p_ceiling, p_min, p_accept,
               p_parallel, p_ranges >>

xferVars == << pc, overwrite, filename, has_callback, file_path, head_resp,
               total_size, accept_ranges, use_parallel, ranges, progress,
               dest, dest_before, tmp_out, temp_dir, part, wpc, attempt,
               seen, requests, exc, disk_stat, result >>

\* no call of check_disk_space is in progress
NoStat == [free |-> -1, unavailable |-> FALSE]

hubVars == << h_pc, h_url, h_extract, h_callback, h_parsed, h_dirs, h_idx,
              h_zip, h_extracted, h_downloads, h_progress, h_exc, h_result >>

progVars == << u_pc, u_delta, u_local, u_lock, u_total, u_downloaded,
               u_percentage, u_sum >>

monVars == << m_pc, m_stop, m_last_pct, m_observed >>

pairVars == << c_now, t_pc, t_filename, t_parallel, t_temp_dir, t_holds >>

vars == << planVars, xferVars, hubVars, progVars, monVars, pairVars >>

MaxTransfers == 2
Transfers == 1..MaxTransfers

\* no pair of transfers is running
PairIdle ==
    /\ c_now = 0
    /\ t_pc = [t \in Transfers |-> "idle"]
    /\ t_filename = [t \in Transfers |-> ""]
    /\ t_parallel = [t \in Transfers |-> FALSE]
    /\ t_temp_dir = [t \in Transfers |-> <<>>]
    /\ t_holds = [t \in Transfers |-> {}]

\* the chunk workers the configuration allows
Workers == 1..max_workers

\* DownloadProgress.__init__, lines 97-105
NewProgress ==
    [total_size |-> 0, downloaded |-> 0, percentage |-> 0,
     status |-> "pending", error_message |-> "none"]

\* DownloadProgress.update(downloaded_delta), lines 107-112
update(p, delta) ==
    LET d == p.downloaded + delta
    IN  [p EXCEPT !.downloaded = d,
                  !.percentage = IF p.total_size > 0
                                 THEN PctOf(d, p.total_size) ELSE @]

\* DownloadProgress.set_total(total), lines 114-116
set_total(p, total) == [p EXCEPT !.total_size = total]

NoResult == [kind |-> "none", message |-> "none", progress |-> NewProgress]

\* parsed before parse_github_url has returned
NoParsed == [type |-> "none"]

\* the three entries of possible_folders, github_handler.py lines 212-216
Candidates == 1..3

\* the threads that call update() on one DownloadProgress object
MaxCallers == 2
Callers == 1..MaxCallers

\* no DownloadProgress object is under concurrent update
ProgIdle ==
    /\ u_pc = [w \in Callers |-> "idle"]
    /\ u_delta = [w \in Callers |-> 0]
    /\ u_local = [w \in Callers |-> 0]
    /\ u_lock = 0
    /\ u_total = 0
    /\ u_downloaded = 0
    /\ u_percentage = 0
    /\ u_sum = 0

\* no monitor thread exists
MonIdle ==
    /\ m_pc = "none"
    /\ m_stop = FALSE
    /\ m_last_pct = -1
    /\ m_observed = -1

\* no call of download_repository() is made
HubIdle ==
    /\ h_pc = "idle"
    /\ h_url = <<>>
    /\ h_extract = FALSE
    /\ h_callback = FALSE
    /\ h_parsed = NoParsed
    /\ h_dirs = [k \in Candidates |-> "absent"]
    /\ h_idx = 0
    /\ h_zip = FALSE
    /\ h_extracted = 0
    /\ h_downloads = 0
    /\ h_progress = NewProgress
    /\ h_exc = "none"
    /\ h_result = NoResult

(***************************************************************************)
(* PlanSpec: the strategy decision and the range computation.              *)
(***************************************************************************)
PlanTotals == (0..MaxPlanTotal) \cup {ScenarioTotal}
PlanCeilings == (1..MaxPlanWorkers) \cup {DefaultMaxWorkers}
PlanMinParts == (1..MaxPlanMinPart) \cup {DefaultMinPartSize}

XferIdle ==
    /\ pc = "idle"
    /\ overwrite = FALSE
    /\ filename = "none"
    /\ has_callback = FALSE
    /\ file_path = "unbound"
    /\ head_resp = "none"
    /\ total_size = 0
    /\ accept_ranges = FALSE
    /\ use_parallel = FALSE
    /\ ranges = <<>>
    /\ progress = NewProgress
    /\ dest = NoFile
    /\ dest_before = NoFile
    /\ tmp_out = NoFile
    /\ temp_dir = FALSE
    /\ part = [i \in Workers |-> NoFile]
    /\ wpc = [i \in Workers |-> "idle"]
    /\ attempt = [i \in Workers |-> 0]
    /\ seen = <<>>
    /\ requests = {}
    /\ exc = "none"
    /\ disk_stat = NoStat
    /\ result = NoResult

PlanInit ==
    /\ p_pc = "input"
    /\ p_header \in ARHeaders
    /\ p_total \in PlanTotals
    /\ p_ceiling \in PlanCeilings
    /\ p_min \in PlanMinParts
    /\ p_accept = FALSE
    /\ p_parallel = FALSE
    /\ p_ranges = <<>>
    /\ XferIdle
    /\ HubIdle
    /\ ProgIdle
    /\ MonIdle
    /\ PairIdle

\* lines 287-328: read the metadata, decide the strategy
DecideStrategy ==
    /\ p_pc = "input"
    /\ p_accept' = AcceptsRanges(p_header)
    /\ p_parallel' = UseParallel(AcceptsRanges(p_header), p_total, p_min)
    /\ p_pc' = "decided"
    /\ UNCHANGED << p_header, p_total, p_ceiling, p_min, p_ranges >>
    /\ UNCHANGED << pairVars, xferVars, hubVars, progVars, monVars >>

\* lines 332-350: if use_parallel, compute the ranges
PlanRanges ==
    /\ p_pc = "decided"
    /\ p_parallel
    /\ p_ranges' = ComputeRanges(p_total, p_ceiling, p_min)
    /\ p_pc' = "planned"
    /\ UNCHANGED << p_header, p_total, p_ceiling, p_min, p_accept, p_parallel >>
    /\ UNCHANGED << pairVars, xferVars, hubVars, progVars, monVars >>

PlanNext == DecideStrategy \/ PlanRanges

PlanSpec == PlanInit /\ [][PlanNext]_vars

(***************************************************************************)
(* Spec: one call of download().                                           *)
(***************************************************************************)
PlanIdle ==
    /\ p_pc = "idle"
    /\ p_header = <<>>
    /\ p_total = 0
    /\ p_ceiling = max_workers
    /\ p_min = min_part_size
    /\ p_accept = FALSE
    /\ p_parallel = FALSE
    /\ p_ranges = <<>>

\* the state in which download() is called: the arguments, and whether a
\* file already is at the destination
Init ==
    /\ PlanIdle
    /\ HubIdle
    /\ ProgIdle
    /\ MonIdle
    /\ PairIdle
    /\ pc = "start"
    /\ overwrite \in BOOLEAN
    /\ filename \in {"none", "name"}
    /\ has_callback \in BOOLEAN
    /\ file_path = "unbound"
    /\ head_resp = "none"
    /\ total_size = 0
    /\ accept_ranges = FALSE
    /\ use_parallel = FALSE
    /\ ranges = <<>>
    /\ progress = NewProgress
    /\ dest \in {NoFile, File(OldData)}
    /\ dest_before = dest
    /\ tmp_out = NoFile
    /\ temp_dir = FALSE
    /\ part = [i \in Workers |-> NoFile]
    /\ wpc = [i \in Workers |-> "idle"]
    /\ attempt = [i \in Workers |-> 0]
    /\ seen = <<>>
    /\ requests = {}
    /\ exc = "none"
    /\ disk_stat = NoStat
    /\ result = NoResult

\* progress.to_dict(), lines 118-129
to_dict(p) == p

\* an exception raised in the body of the outer try (line 226) and outside
\* the inner try of the parallel branch: control passes to line 525
Raise(msg) ==
    /\ pc' = "except"
    /\ exc' = msg

\* an exception raised inside the inner try of the parallel branch
\* (lines 378-440): control passes to line 442
RaiseInner(msg) ==
    /\ pc' = "par_except"
    /\ exc' = msg

\* lines 226-240: reset the progress, create the destination folder
Start ==
    /\ pc = "start"
    /\ progress' = [NewProgress EXCEPT !.status = "downloading"]
    /\ \/ pc' = "head" /\ exc' = exc
       \/ Raise("mkdir failed")
    /\ UNCHANGED << pairVars, planVars, hubVars, progVars, monVars, disk_stat >>
    /\ UNCHANGED << overwrite, filename, has_callback, file_path, head_resp,
                    total_size, accept_ranges, use_parallel, ranges, dest,
                    dest_before, tmp_out, temp_dir, part, wpc, attempt, seen,
                    requests, result >>

\* lines 243-252: the HEAD request; a status >= 400 leads to the GET of
\* line 248, an exception to head_resp = None
HeadProbe ==
    /\ pc = "head"
    /\ requests' = requests \cup {"head"}
    /\ \E outcome \in {"raise", "ok", "bad"} :
          /\ head_resp' = (IF outcome = "raise" THEN "none" ELSE outcome)
          /\ pc' = (IF outcome = "bad" THEN "probe_get" ELSE "filename")
    /\ UNCHANGED << pairVars, planVars, hubVars, progVars, monVars, disk_stat >>
    /\ UNCHANGED << overwrite, filename, has_callback, file_path,
                    total_size, accept_ranges, use_parallel, ranges, progress,
                    dest, dest_before, tmp_out, temp_dir, part, wpc, attempt,
                    seen, exc, result >>

\* lines 248-252: the streaming GET that replaces a rejected HEAD
ProbeGet ==
    /\ pc = "probe_get"
    /\ requests' = requests \cup {"probe_get"}
    /\ \E outcome \in {"raise", "ok", "bad"} :
          head_resp' = (IF outcome = "raise" THEN "none" ELSE outcome)
    /\ pc' = "filename"
    /\ UNCHANGED << pairVars, planVars, hubVars, progVars, monVars, disk_stat >>
    /\ UNCHANGED << overwrite, filename, has_callback, file_path,
                    total_size, accept_ranges, use_parallel, ranges, progress,
                    dest, dest_before, tmp_out, temp_dir, part, wpc, attempt,
                    seen, exc, result >>

\* lines 254-265: determine the filename (from the argument, else from the
\* response or the URL) and file_path
ResolveFilename ==
    /\ pc = "filename"
    /\ filename' = "name"
    /\ file_path' = "bound"
    /\ pc' = "check_existing"
    /\ UNCHANGED << pairVars, planVars, hubVars, progVars, monVars, disk_stat >>
    /\ UNCHANGED << overwrite, has_callback, head_resp, total_size,
                    accept_ranges, use_parallel, ranges, progress, dest,
                    dest_before, tmp_out, temp_dir, part, wpc, attempt, seen,
                    requests, exc, result >>

\* lines 267-284: the existing-file short-circuit
\* lines 270-274: the progress of the short-circuit
\* (mutant: the transferred bytes are left at 0)
skip_progress_nothing_downloaded(p, existing_size) ==
    [p EXCEPT !.status = "completed",
              !.percentage = 100,
              !.total_size = existing_size]
skip_progress(p, existing_size) ==
    [p EXCEPT !.status = "completed",
              !.percentage = 100,
              !.total_size = existing_size,
              !.downloaded = existing_size]

CheckExisting ==
    /\ pc = "check_existing"
    /\ IF dest.exists /\ ~overwrite
       THEN /\ progress' = skip_progress(progress, Size(dest))
            /\ result' = [kind |-> "skipped",
                          message |-> "File already exists, skipped download",
                          progress |-> to_dict(progress')]
            /\ pc' = "done"
       ELSE /\ pc' = "metadata"
            /\ UNCHANGED << progress, result >>
    /\ UNCHANGED << pairVars, planVars, hubVars, progVars, monVars, disk_stat >>
    /\ UNCHANGED << overwrite, filename, has_callback, file_path, head_resp,
                    total_size, accept_ranges, use_parallel, ranges, dest,
                    dest_before, tmp_out, temp_dir, part, wpc, attempt, seen,
                    requests, exc >>

\* the metadata the origins of the model send: Content-Length (0: absent)
\* and Accept-Ranges
Origins ==
    ((0..MaxTotal) \X ARHeaders) \cup {<<BigTotal, <<>> >>}

\* lines 286-305: content length and accept-ranges, from head_resp if it
\* is truthy (Response.__bool__ is Response.ok), else from a further GET
Metadata ==
    /\ pc = "metadata"
    /\ \/ /\ head_resp = "ok"
          /\ requests' = requests
          /\ \E o \in Origins :
                /\ total_size' = o[1]
                /\ accept_ranges' = AcceptsRanges(o[2])
                /\ progress' = set_total(progress, o[1])
          /\ pc' = "preflight"
          /\ exc' = exc
       \/ /\ head_resp # "ok"
          /\ requests' = requests \cup {"size_get"}
          /\ \/ /\ \E o \in Origins :
                      /\ total_size' = o[1]
                      /\ accept_ranges' = AcceptsRanges(o[2])
                      /\ progress' = set_total(progress, o[1])
                /\ pc' = "preflight"
                /\ exc' = exc
             \/ /\ Raise("metadata request failed")
                /\ UNCHANGED << total_size, accept_ranges, progress >>
    /\ UNCHANGED << pairVars, planVars, hubVars, progVars, monVars, disk_stat >>
    /\ UNCHANGED << overwrite, filename, has_callback, file_path, head_resp,
                    use_parallel, ranges, dest, dest_before, tmp_out, temp_dir,
                    part, wpc, attempt, seen, result >>

\* free space the destination volume may have
FreeSpaces == 0..(BigTotal + 1)

\* lines 307-311 and 39-40: with a known size check_disk_space is called
\* and asks shutil.disk_usage, which answers or raises; with an unknown
\* size the check is skipped (line 320)
Preflight ==
    /\ pc = "preflight"
    /\ IF total_size > 0
       THEN /\ \E free \in FreeSpaces, unavailable \in BOOLEAN :
                  disk_stat' = [free |-> IF unavailable THEN -1 ELSE free,
                                unavailable |-> unavailable]
            /\ pc' = "disk_check"
       ELSE /\ pc' = "strategy"
            /\ disk_stat' = disk_stat
    /\ UNCHANGED << pairVars, planVars, hubVars, progVars, monVars >>
    /\ UNCHANGED << overwrite, filename, has_callback, file_path, head_resp,
                    total_size, accept_ranges, use_parallel, ranges, progress,
                    dest, dest_before, tmp_out, temp_dir, part, wpc, attempt,
                    seen, requests, exc, result >>

\* lines 41-46 and 311-318: check_disk_space returns, a False result
\* raises 'Insufficient disk space'
PreflightCheck ==
    /\ pc = "disk_check"
    /\ IF check_disk_space(disk_stat.free, total_size, disk_stat.unavailable)
       THEN pc' = "strategy" /\ exc' = exc
       ELSE Raise("Insufficient disk space")
    /\ disk_stat' = NoStat
    /\ UNCHANGED << pairVars, planVars, hubVars, progVars, monVars >>
    /\ UNCHANGED << overwrite, filename, has_callback, file_path, head_resp,
                    total_size, accept_ranges, use_parallel, ranges, progress,
                    dest, dest_before, tmp_out, temp_dir, part, wpc, attempt,
                    seen, requests, result >>

\* lines 322-350: decide the strategy and, if parallel, compute the ranges
Strategy ==
    /\ pc = "strategy"
    /\ use_parallel' = UseParallel(accept_ranges, total_size, min_part_size)
    /\ IF use_parallel'
       THEN /\ ranges' = ComputeRanges(total_size, max_workers, min_part_size)
            /\ pc' = "par_start"
       ELSE /\ ranges' = ranges
            /\ pc' = "single_get"
    /\ UNCHANGED << pairVars, planVars, hubVars, progVars, monVars, disk_stat >>
    /\ UNCHANGED << overwrite, filename, has_callback, file_path, head_resp,
                    total_size, accept_ranges, progress, dest, dest_before,
                    tmp_out, temp_dir, part, wpc, attempt, seen, requests,
                    exc, result >>

(***************************************************************************)
(* The parallel branch, lines 332-453.                                     *)
(***************************************************************************)
\* the chunk tasks of this transfer: one per range
Tasks == 1..Len(ranges)

Returned(i) == wpc[i] \in {"true", "false"}

\* lines 352-388: create the temp directory, submit one task per range
ParStart ==
    /\ pc = "par_start"
    /\ \/ /\ temp_dir' = TRUE
          /\ wpc' = [i \in Workers |-> IF i \in Tasks THEN "ready" ELSE wpc[i]]
          /\ m_pc' = "poll"
          /\ m_stop' = FALSE
          /\ pc' = "await"
          /\ exc' = exc
       \/ /\ Raise("mkdir failed")
          /\ UNCHANGED << temp_dir, wpc, m_pc, m_stop >>
    /\ UNCHANGED << pairVars, planVars, hubVars, progVars, disk_stat >>
    /\ UNCHANGED << m_last_pct, m_observed >>
    /\ UNCHANGED << overwrite, filename, has_callback, file_path, head_resp,
                    total_size, accept_ranges, use_parallel, ranges, progress,
                    dest, dest_before, tmp_out, part, attempt, seen, requests,
                    result >>

\* _download_part, lines 198-204: the except clause of one attempt
\* (mutant: one more attempt than max_retries)
AfterFailureOffByOne(i) ==
    IF attempt[i] < max_retries
    THEN /\ attempt' = [attempt EXCEPT ![i] = @ + 1]
         /\ wpc' = [wpc EXCEPT ![i] = "ready"]
    ELSE /\ attempt' = attempt
         /\ wpc' = [wpc EXCEPT ![i] = "false"]
AfterFailure(i) ==
    IF attempt[i] < max_retries - 1
    THEN /\ attempt' = [attempt EXCEPT ![i] = @ + 1]
         /\ wpc' = [wpc EXCEPT ![i] = "ready"]
    ELSE /\ attempt' = attempt
         /\ wpc' = [wpc EXCEPT ![i] = "false"]

\* _download_part, lines 186-191: the range request of one attempt and the
\* opening of the part file ('wb' creates or truncates it)
PartRequest(i) ==
    /\ wpc[i] = "ready"
    /\ requests' = requests \cup {"range_get"}
    /\ \/ /\ part' = [part EXCEPT ![i] = File(<<>>)]
          /\ wpc' = [wpc EXCEPT ![i] = "stream"]
          /\ attempt' = attempt
       \/ /\ AfterFailure(i)
          /\ part' = part
    /\ UNCHANGED << pairVars, planVars, hubVars, progVars, monVars, disk_stat >>
    /\ UNCHANGED << pc, overwrite, filename, has_callback, file_path,
                    head_resp, total_size, accept_ranges, use_parallel, ranges,
                    progress, dest, dest_before, tmp_out, temp_dir, seen, exc,
                    result >>

\* _download_part, lines 192-196: one chunk of the response is written to
\* the part file and counted
PartWrite(i) ==
    /\ wpc[i] = "stream"
    /\ Size(part[i]) < RangeLen(ranges[i]) + MaxExtra
    /\ part' = [part EXCEPT
                  ![i] = File(Append(@.data, ranges[i][1] + Size(part[i])))]
    /\ progress' = update(progress, 1)
    /\ UNCHANGED << pairVars, planVars, hubVars, progVars, monVars, disk_stat >>
    /\ UNCHANGED << pc, overwrite, filename, has_callback, file_path,
                    head_resp, total_size, accept_ranges, use_parallel, ranges,
                    dest, dest_before, tmp_out, temp_dir, wpc, attempt, seen,
                    requests, exc, result >>

\* _download_part, line 197: the response ended, return True
PartDone(i) ==
    /\ wpc[i] = "stream"
    /\ wpc' = [wpc EXCEPT ![i] = "true"]
    /\ UNCHANGED << pairVars, planVars, hubVars, progVars, monVars, disk_stat >>
    /\ UNCHANGED << pc, overwrite, filename, has_callback, file_path,
                    head_resp, total_size, accept_ranges, use_parallel, ranges,
                    progress, dest, dest_before, tmp_out, temp_dir, part,
                    attempt, seen, requests, exc, result >>

\* _download_part, lines 198-204: the connection failed while streaming
PartError(i) ==
    /\ wpc[i] = "stream"
    /\ AfterFailure(i)
    /\ UNCHANGED << pairVars, planVars, hubVars, progVars, monVars, disk_stat >>
    /\ UNCHANGED << pc, overwrite, filename, has_callback, file_path,
                    head_resp, total_size, accept_ranges, use_parallel, ranges,
                    progress, dest, dest_before, tmp_out, temp_dir, part, seen,
                    requests, exc, result >>

\* lines 390-397: as_completed yields a finished future; a False result
\* raises inside the with block, the last True result ends the loop
\* (mutant: the loop ends with the first finished future)
loop_ends_early(yielded) == yielded # <<>>
loop_ends(yielded) == { yielded[k] : k \in 1..Len(yielded) } = Tasks

\* lines 395 and 443: stop_monitor = True
\* (mutant: the flag is left as it is)
stop_monitor_unset == FALSE
stop_monitor_set == TRUE

AsCompleted ==
    /\ pc = "await"
    /\ \E i \in Tasks \ { seen[k] : k \in 1..Len(seen) } :
          /\ Returned(i)
          /\ IF wpc[i] = "false"
             THEN /\ pc' = "shutdown"
                  /\ exc' = "One or more parts failed to download"
                  /\ seen' = seen
                  /\ m_stop' = m_stop
             ELSE /\ seen' = Append(seen, i)
                  /\ pc' = (IF loop_ends(seen') THEN "verify_parts" ELSE "await")
                  /\ m_stop' = (IF loop_ends(seen') THEN stop_monitor_set
                                                    ELSE m_stop)
                  /\ exc' = exc
    /\ UNCHANGED << pairVars, planVars, hubVars, progVars, disk_stat >>
    /\ UNCHANGED << m_pc, m_last_pct, m_observed >>
    /\ UNCHANGED << overwrite, filename, has_callback, file_path, head_resp,
                    total_size, accept_ranges, use_parallel, ranges, progress,
                    dest, dest_before, tmp_out, temp_dir, part, wpc, attempt,
                    requests, result >>

\* line 384: ThreadPoolExecutor.__exit__ is shutdown(wait=True): the
\* exception leaves the with block once every submitted task has returned
\* (mutant: shutdown(wait=False))
shutdown_nowait == TRUE
shutdown_wait == \A i \in Tasks : Returned(i)

ExecutorShutdown ==
    /\ pc = "shutdown"
    /\ shutdown_wait
    /\ pc' = "par_except"
    /\ UNCHANGED << pairVars, planVars, hubVars, progVars, monVars, disk_stat >>
    /\ UNCHANGED << overwrite, filename, has_callback, file_path, head_resp,
                    total_size, accept_ranges, use_parallel, ranges, progress,
                    dest, dest_before, tmp_out, temp_dir, part, wpc, attempt,
                    seen, requests, exc, result >>

\* the environment: a part file is removed by someone else after its task
\* returned and before the parts are verified
PartVanishes(i) ==
    /\ pc = "verify_parts"
    /\ i \in Tasks
    /\ part[i].exists
    /\ part' = [part EXCEPT ![i] = NoFile]
    /\ UNCHANGED << pairVars, planVars, hubVars, progVars, monVars, disk_stat >>
    /\ UNCHANGED << pc, overwrite, filename, has_callback, file_path,
                    head_resp, total_size, accept_ranges, use_parallel, ranges,
                    progress, dest, dest_before, tmp_out, temp_dir, wpc,
                    attempt, seen, requests, exc, result >>

\* lines 399-411: verify every part before merging
\* (mutant: the parts are not verified)
all_parts_unverified == TRUE
all_parts_valid ==
    \A i \in Tasks : verify_part_size(part[i], RangeLen(ranges[i]))

VerifyParts ==
    /\ pc = "verify_parts"
    /\ IF all_parts_valid
       THEN pc' = "merge" /\ exc' = exc
       ELSE RaiseInner("Part verification failed. Download incomplete.")
    /\ UNCHANGED << pairVars, planVars, hubVars, progVars, monVars, disk_stat >>
    /\ UNCHANGED << overwrite, filename, has_callback, file_path, head_resp,
                    total_size, accept_ranges, use_parallel, ranges, progress,
                    dest, dest_before, tmp_out, temp_dir, part, wpc, attempt,
                    seen, requests, result >>

\* the concatenation of the first k part files, in index order
\* (mutant: in the order in which as_completed yielded their tasks)
RECURSIVE ConcatYielded(_)
ConcatYielded(k) ==
    IF k = 0 THEN <<>> ELSE ConcatYielded(k - 1) \o part[seen[k]].data
RECURSIVE Concat(_)
Concat(k) == IF k = 0 THEN <<>> ELSE Concat(k - 1) \o part[k].data

\* lines 413-419: merge the parts into the staging file; the copy may fail
\* (an I/O error) after k parts
Merge ==
    /\ pc = "merge"
    /\ \/ /\ tmp_out' = File(Concat(Len(ranges)))
          /\ pc' = "verify_merged"
          /\ exc' = exc
       \/ /\ \E k \in 0..(Len(ranges) - 1) : tmp_out' = File(Concat(k))
          /\ RaiseInner("write failed")
    /\ UNCHANGED << pairVars, planVars, hubVars, progVars, monVars, disk_stat >>
    /\ UNCHANGED << overwrite, filename, has_callback, file_path, head_resp,
                    total_size, accept_ranges, use_parallel, ranges, progress,
                    dest, dest_before, temp_dir, part, wpc, attempt, seen,
                    requests, result >>

\* lines 421-429: verify the size of the merged file
VerifyMerged ==
    /\ pc = "verify_merged"
    /\ IF verify_file_size(tmp_out, total_size, 0)
       THEN /\ pc' = "par_unlink"
            /\ UNCHANGED << tmp_out, exc >>
       ELSE /\ tmp_out' = NoFile
            /\ RaiseInner("Merged file size verification failed.")
    /\ UNCHANGED << pairVars, planVars, hubVars, progVars, monVars, disk_stat >>
    /\ UNCHANGED << overwrite, filename, has_callback, file_path, head_resp,
                    total_size, accept_ranges, use_parallel, ranges, progress,
                    dest, dest_before, temp_dir, part, wpc, attempt, seen,
                    requests, result >>

\* lines 432-433: remove the old file
ParUnlink ==
    /\ pc = "par_unlink"
    /\ dest' = (IF dest.exists THEN NoFile ELSE dest)
    /\ pc' = "par_rename"
    /\ UNCHANGED << pairVars, planVars, hubVars, progVars, monVars, disk_stat >>
    /\ UNCHANGED << overwrite, filename, has_callback, file_path, head_resp,
                    total_size, accept_ranges, use_parallel, ranges, progress,
                    dest_before, tmp_out, temp_dir, part, wpc, attempt, seen,
                    requests, exc, result >>

\* line 434: rename the staging file to the destination; the rename may fail
ParRename ==
    /\ pc = "par_rename"
    /\ \/ /\ dest' = tmp_out
          /\ tmp_out' = NoFile
          /\ pc' = "rm_temp"
          /\ exc' = exc
       \/ /\ RaiseInner("rename failed")
          /\ UNCHANGED << dest, tmp_out >>
    /\ UNCHANGED << pairVars, planVars, hubVars, progVars, monVars, disk_stat >>
    /\ UNCHANGED << overwrite, filename, has_callback, file_path, head_resp,
                    total_size, accept_ranges, use_parallel, ranges, progress,
                    dest_before, temp_dir, part, wpc, attempt, seen, requests,
                    result >>

\* shutil.rmtree(temp_dir): the part files of the directory are gone
\* (mutant: the part files are left behind)
rmtree_skipped(parts) == parts
rmtree(parts) == [i \in Workers |-> NoFile]

\* lines 436-440: remove the temp directory after the install
RemoveTempDir ==
    /\ pc = "rm_temp"
    /\ temp_dir' = FALSE
    /\ part' = rmtree(part)
    /\ pc' = "finish"
    /\ UNCHANGED << pairVars, planVars, hubVars, progVars, monVars, disk_stat >>
    /\ UNCHANGED << overwrite, filename, has_callback, file_path, head_resp,
                    total_size, accept_ranges, use_parallel, ranges, progress,
                    dest, dest_before, tmp_out, wpc, attempt, seen, requests,
                    exc, result >>

\* lines 442-453: the except clause of the inner try: remove the temp
\* directory, raise again
ParExcept ==
    /\ pc = "par_except"
    /\ m_stop' = stop_monitor_set
    /\ temp_dir' = FALSE
    /\ part' = (IF temp_dir THEN rmtree(part) ELSE part)
    /\ pc' = "except"
    /\ UNCHANGED << pairVars, planVars, hubVars, progVars, disk_stat >>
    /\ UNCHANGED << m_pc, m_last_pct, m_observed >>
    /\ UNCHANGED << overwrite, filename, has_callback, file_path, head_resp,
                    total_size, accept_ranges, use_parallel, ranges, progress,
                    dest, dest_before, tmp_out, wpc, attempt, seen, requests,
                    exc, result >>

(***************************************************************************)
(* The single-stream branch, lines 455-498.                                *)
(***************************************************************************)
\* lines 457-464: the streaming GET and the opening of the staging file
SingleGet ==
    /\ pc = "single_get"
    /\ requests' = requests \cup {"stream_get"}
    /\ \/ /\ tmp_out' = File(<<>>)
          /\ pc' = "single_stream"
          /\ exc' = exc
       \/ /\ Raise("request failed")
          /\ tmp_out' = tmp_out
    /\ UNCHANGED << pairVars, planVars, hubVars, progVars, monVars, disk_stat >>
    /\ UNCHANGED << overwrite, filename, has_callback, file_path, head_resp,
                    total_size, accept_ranges, use_parallel, ranges, progress,
                    dest, dest_before, temp_dir, part, wpc, attempt, seen,
                    result >>

\* the longest body the origin of the model sends on the single stream
StreamLimit == IF total_size > 0 THEN total_size + MaxExtra ELSE MaxTotal

\* lines 465-481: one chunk is written to the staging file and counted; an
\* exception of the progress callback is swallowed (lines 478-481)
SingleWrite ==
    /\ pc = "single_stream"
    /\ Size(tmp_out) < StreamLimit
    /\ tmp_out' = File(Append(tmp_out.data, Size(tmp_out)))
    /\ progress' = update(progress, 1)
    /\ UNCHANGED << pairVars, planVars, hubVars, progVars, monVars, disk_stat >>
    /\ UNCHANGED << pc, overwrite, filename, has_callback, file_path,
                    head_resp, total_size, accept_ranges, use_parallel, ranges,
                    dest, dest_before, temp_dir, part, wpc, attempt, seen,
                    requests, exc, result >>

\* line 482: the response ended
SingleDone ==
    /\ pc = "single_stream"
    /\ pc' = "single_verify"
    /\ UNCHANGED << pairVars, planVars, hubVars, progVars, monVars, disk_stat >>
    /\ UNCHANGED << overwrite, filename, has_callback, file_path, head_resp,
                    total_size, accept_ranges, use_parallel, ranges, progress,
                    dest, dest_before, tmp_out, temp_dir, part, wpc, attempt,
                    seen, requests, exc, result >>

\* the connection or the write failed while streaming
SingleError ==
    /\ pc = "single_stream"
    /\ Raise("stream failed")
    /\ UNCHANGED << pairVars, planVars, hubVars, progVars, monVars, disk_stat >>
    /\ UNCHANGED << overwrite, filename, has_callback, file_path, head_resp,
                    total_size, accept_ranges, use_parallel, ranges, progress,
                    dest, dest_before, tmp_out, temp_dir, part, wpc, attempt,
                    seen, requests, result >>

\* lines 484-493: verify the size of the staging file if the size is known
\* line 485: if total_size > 0
\* (mutants: the size is verified also when it is unknown; never verified)
size_known_always(total) == TRUE
size_known_never(total) == FALSE
size_known(total) == total > 0

SingleVerify ==
    /\ pc = "single_verify"
    /\ IF size_known(total_size) /\ ~verify_file_size(tmp_out, total_size, 0)
       THEN /\ tmp_out' = NoFile
            /\ Raise("Downloaded file size verification failed.")
       ELSE /\ pc' = "single_unlink"
            /\ UNCHANGED << tmp_out, exc >>
    /\ UNCHANGED << pairVars, planVars, hubVars, progVars, monVars, disk_stat >>
    /\ UNCHANGED << overwrite, filename, has_callback, file_path, head_resp,
                    total_size, accept_ranges, use_parallel, ranges, progress,
                    dest, dest_before, temp_dir, part, wpc, attempt, seen,
                    requests, result >>

\* lines 496-497: remove the old file
SingleUnlink ==
    /\ pc = "single_unlink"
    /\ dest' = (IF dest.exists THEN NoFile ELSE dest)
    /\ pc' = "single_rename"
    /\ UNCHANGED << pairVars, planVars, hubVars, progVars, monVars, disk_stat >>
    /\ UNCHANGED << overwrite, filename, has_callback, file_path, head_resp,
                    total_size, accept_ranges, use_parallel, ranges, progress,
                    dest_before, tmp_out, temp_dir, part, wpc, attempt, seen,
                    requests, exc, result >>

\* line 498: rename the staging file to the destination; the rename may fail
SingleRename ==
    /\ pc = "single_rename"
    /\ \/ /\ dest' = tmp_out
          /\ tmp_out' = NoFile
          /\ pc' = "finish"
          /\ exc' = exc
       \/ /\ Raise("rename failed")
          /\ UNCHANGED << dest, tmp_out >>
    /\ UNCHANGED << pairVars, planVars, hubVars, progVars, monVars, disk_stat >>
    /\ UNCHANGED << overwrite, filename, has_callback, file_path, head_resp,
                    total_size, accept_ranges, use_parallel, ranges, progress,
                    dest_before, temp_dir, part, wpc, attempt, seen, requests,
                    result >>

(***************************************************************************)
(* The two ends of download().                                             *)
(***************************************************************************)
\* whether a call of progress_callback may raise: a callback is code of the
\* caller, each call of it returns or raises
CallbackOutcomes == IF has_callback THEN {"returns", "raises"} ELSE {"returns"}

\* lines 500-523: mark the progress completed, call the callback (outside
\* any inner try), return the success record
Finish ==
    /\ pc = "finish"
    /\ progress' = [progress EXCEPT !.status = "completed", !.percentage = 100]
    /\ \E cb \in CallbackOutcomes :
          IF cb = "raises"
          THEN /\ Raise("callback failed")
               /\ result' = result
          ELSE /\ result' = [kind |-> "success",
                             message |-> "Download completed successfully",
                             progress |-> to_dict(progress')]
               /\ pc' = "done"
               /\ exc' = exc
    /\ UNCHANGED << pairVars, planVars, hubVars, progVars, monVars, disk_stat >>
    /\ UNCHANGED << overwrite, filename, has_callback, file_path, head_resp,
                    total_size, accept_ranges, use_parallel, ranges, dest,
                    dest_before, tmp_out, temp_dir, part, wpc, attempt, seen,
                    requests >>

\* lines 525-546: the except clause of the outer try: mark the progress,
\* remove the staging file (a NameError of an unbound file_path is
\* swallowed), call the callback (outside any try), return the failure
\* record; pc = "raised" is the exception of the callback leaving download()
\* lines 531-537: remove the staging file; file_path is unbound when the
\* exception came before line 264, and the NameError is swallowed
\* (mutant: the staging file is left behind)
cleanup_staging_skipped(bound, staged) == staged
cleanup_staging(bound, staged) == IF bound = "bound" THEN NoFile ELSE staged

Except ==
    /\ pc = "except"
    /\ progress' = [progress EXCEPT !.status = "error", !.error_message = exc]
    /\ tmp_out' = cleanup_staging(file_path, tmp_out)
    /\ \E cb \in CallbackOutcomes :
          IF cb = "raises"
          THEN /\ pc' = "raised"
               /\ result' = result
          ELSE /\ result' = [kind |-> "failure",
                             message |-> exc,
                             progress |-> to_dict(progress')]
               /\ pc' = "done"
    /\ UNCHANGED << pairVars, planVars, hubVars, progVars, monVars, disk_stat >>
    /\ UNCHANGED << overwrite, filename, has_callback, file_path, head_resp,
                    total_size, accept_ranges, use_parallel, ranges, dest,
                    dest_before, temp_dir, part, wpc, attempt, seen, requests,
                    exc >>

Next ==
    \/ Start
    \/ HeadProbe
    \/ ProbeGet
    \/ ResolveFilename
    \/ CheckExisting
    \/ Metadata
    \/ Preflight
    \/ PreflightCheck
    \/ Strategy
    \/ ParStart
    \/ \E i \in Workers : PartRequest(i)
    \/ \E i \in Workers : PartWrite(i)
    \/ \E i \in Workers : PartDone(i)
    \/ \E i \in Workers : PartError(i)
    \/ AsCompleted
    \/ ExecutorShutdown
    \/ \E i \in Workers : PartVanishes(i)
    \/ VerifyParts
    \/ Merge
    \/ VerifyMerged
    \/ ParUnlink
    \/ ParRename
    \/ RemoveTempDir
    \/ ParExcept
    \/ SingleGet
    \/ SingleWrite
    \/ SingleDone
    \/ SingleError
    \/ SingleVerify
    \/ SingleUnlink
    \/ SingleRename
    \/ Finish
    \/ Except

Spec == Init /\ [][Next]_vars

(***************************************************************************)
(* GitSpec: GitHubHandler.parse_github_url and download_repository.        *)
(*                                                                         *)
(* A URL is the sequence of the pieces of its text: the delimiters         *)
(* "https:", "/", "?", "#", ".", "[", "]" and the words between them.      *)
(* 'x in s' on strings is Contains on these sequences; the words are       *)
(* chosen so that no piece of one is a piece of another.                   *)
(***************************************************************************)
MaxSegs == 6

\* the longest prefix of s without a piece of stop
RECURSIVE TakeUntil(_, _)
TakeUntil(s, stop) ==
    IF s = <<>> \/ Head(s) \in stop
    THEN <<>>
    ELSE <<Head(s)>> \o TakeUntil(Tail(s), stop)

DropFirst(s, n) == SubSeq(s, n + 1, Len(s))

\* urllib.parse.urlparse as used at line 33: the scheme up to ':', the
\* netloc between '//' and the next '/', '?' or '#', the path up to '?' or
\* '#'; ValueError when exactly one of '[' and ']' is in the netloc
urlparse(url) ==
    LET rest1 == IF url # <<>> /\ Head(url) = "https:" THEN Tail(url) ELSE url
        slashes == Len(rest1) >= 2 /\ rest1[1] = "/" /\ rest1[2] = "/"
        rest2 == IF slashes THEN DropFirst(rest1, 2) ELSE rest1
        netloc == IF slashes THEN TakeUntil(rest2, {"/", "?", "#"}) ELSE <<>>
        rest3 == DropFirst(rest2, Len(netloc))
    IN  [raises |-> Contains(netloc, <<"[">>) # Contains(netloc, <<"]">>),
         netloc |-> netloc,
         path |-> TakeUntil(rest3, {"?", "#"})]

\* str.strip('/')
RECURSIVE lstrip(_)
lstrip(s) == IF s # <<>> /\ Head(s) = "/" THEN lstrip(Tail(s)) ELSE s

RECURSIVE rstrip(_)
rstrip(s) ==
    IF s # <<>> /\ s[Len(s)] = "/" THEN rstrip(SubSeq(s, 1, Len(s) - 1)) ELSE s

strip(s) == rstrip(lstrip(s))

\* str.split('/'): the empty string gives one empty part
RECURSIVE split(_)
split(s) ==
    LET first == TakeUntil(s, {"/"})
    IN  IF Len(first) = Len(s)
        THEN << first >>
        ELSE << first >> \o split(DropFirst(s, Len(first) + 1))

\* '/'.join(parts)
RECURSIVE join(_)
join(parts) ==
    IF parts = <<>> THEN <<>>
    ELSE IF Len(parts) = 1 THEN parts[1]
    ELSE parts[1] \o <<"/">> \o join(Tail(parts))

RawHost == <<"raw", ".", "githubusercontent", ".", "com">>
GithubHost == <<"github", ".", "com">>

\* line 71: the f-string of raw_url
\* (mutant: the branch is left out of the rewritten URL)
raw_url_without_branch(user, repo, branch, path) ==
    <<"https:", "/", "/">> \o RawHost \o <<"/">> \o user \o <<"/">> \o repo
        \o <<"/">> \o path
raw_url(user, repo, branch, path) ==
    <<"https:", "/", "/">> \o RawHost \o <<"/">> \o user \o <<"/">> \o repo
        \o <<"/">> \o branch \o <<"/">> \o path

\* line 86: the f-string of the archive URL
archive_url(user, repo) ==
    <<"https:", "/", "/">> \o GithubHost \o <<"/">> \o user \o <<"/">> \o repo
        \o <<"/", "archive", "/", "refs", "/", "heads", "/", "main", ".",
             "zip">>

\* lines 33-92; a ValueError of urlparse leaves the function as type "raised"
parse_github_url(url) ==
    LET parsed == urlparse(url)
        parts == split(strip(parsed.path))
        n == Len(parts)
    IN  IF parsed.raises
        THEN [type |-> "raised", error |-> "ValueError"]
        ELSE IF Contains(parsed.netloc, RawHost) /\ n >= 4
        THEN [type |-> "raw_file", user |-> parts[1], repo |-> parts[2],
              branch |-> parts[3], file_path |-> join(SubSeq(parts, 4, n)),
              download_url |-> url]
        ELSE IF Contains(parsed.netloc, GithubHost) /\ n >= 2
        THEN IF n >= 5 /\ parts[3] = <<"releases">> /\ parts[4] = <<"download">>
             THEN [type |-> "release_file", user |-> parts[1],
                   repo |-> parts[2], tag |-> parts[5],
                   filename |-> IF n > 5 THEN parts[6] ELSE <<"None">>,
                   download_url |-> url]
             ELSE IF n >= 5 /\ parts[3] = <<"blob">>
             THEN [type |-> "repo_file", user |-> parts[1], repo |-> parts[2],
                   branch |-> parts[4],
                   file_path |-> join(SubSeq(parts, 5, n)),
                   download_url |-> raw_url(parts[1], parts[2], parts[4],
                                            join(SubSeq(parts, 5, n)))]
             ELSE [type |-> "repository", user |-> parts[1],
                   repo |-> parts[2],
                   download_url |-> archive_url(parts[1], parts[2])]
        ELSE [type |-> "unknown", error |-> "Unable to parse GitHub URL"]

\* ---- the URLs drawn as inputs
Hosts ==
    { GithubHost,
      RawHost,
      <<"www", ".">> \o GithubHost,
      GithubHost \o <<".", "example", ".", "org">>,
      <<"gitlab", ".", "com">>,
      <<"[">> \o GithubHost }

\* the words a path may have as its k-th segment
SegAt(k) ==
    CASE k = 1 -> {"user"}
      [] k = 2 -> {"repo"}
      [] k = 3 -> {"blob", "releases", "tree", "main"}
      [] k = 4 -> {"download", "main"}
      [] k = 5 -> {"v1", "docs"}
      [] OTHER -> {"file"}

RECURSIVE SegSeqs(_)
SegSeqs(n) ==
    IF n = 0 THEN { <<>> }
    ELSE { Append(s, w) : s \in SegSeqs(n - 1), w \in SegAt(n) }

RECURSIVE PathText(_)
PathText(segs) ==
    IF segs = <<>> THEN <<>>
    ELSE <<"/", Head(segs)>> \o PathText(Tail(segs))

UrlText(scheme, host, segs, trailing, query) ==
    (IF scheme THEN <<"https:", "/", "/">> ELSE <<>>)
        \o host \o PathText(segs)
        \o (IF trailing THEN <<"/">> ELSE <<>>)
        \o (IF query THEN <<"?", "raw">> ELSE <<>>)

Urls ==
    { UrlText(scheme, host, segs, trailing, query) :
        scheme \in BOOLEAN, host \in Hosts,
        segs \in UNION { SegSeqs(n) : n \in 0..MaxSegs },
        trailing \in BOOLEAN, query \in BOOLEAN }

\* ---- download_repository(url, destination_folder, extract, callback)
GitInit ==
    /\ PlanIdle
    /\ XferIdle
    /\ ProgIdle
    /\ MonIdle
    /\ PairIdle
    /\ h_pc = "start"
    /\ h_url \in Urls
    /\ h_extract \in BOOLEAN
    /\ h_callback \in BOOLEAN
    /\ h_parsed = NoParsed
    /\ h_dirs \in [Candidates -> {"absent", "file", "dir"}]
    /\ h_idx = 0
    /\ h_zip = FALSE
    /\ h_extracted = 0
    /\ h_downloads = 0
    /\ h_progress = NewProgress
    /\ h_exc = "none"
    /\ h_result = NoResult

\* an exception inside the try block of lines 193-287
HubRaise(msg) ==
    /\ h_pc' = "except"
    /\ h_exc' = msg

\* what a call of progress_callback can do
HubCallbackOutcomes ==
    IF h_callback THEN {"returns", "raises"} ELSE {"returns"}

\* lines 193-209: parse the URL and reject what is not a repository
RepoParse ==
    /\ h_pc = "start"
    /\ h_parsed' = parse_github_url(h_url)
    /\ IF h_parsed'.type = "raised"
       THEN /\ HubRaise(h_parsed'.error)
            /\ UNCHANGED << h_idx, h_result >>
       ELSE IF h_parsed'.type # "repository"
       THEN /\ h_result' = [kind |-> "failure",
                            message |-> "URL is not a repository",
                            progress |-> to_dict(h_progress)]
            /\ h_pc' = "done"
            /\ UNCHANGED << h_idx, h_exc >>
       ELSE /\ h_pc' = IF h_extract THEN "check_folders" ELSE "download"
            /\ h_idx' = IF h_extract THEN 1 ELSE h_idx
            /\ UNCHANGED << h_exc, h_result >>
    /\ UNCHANGED << pairVars, planVars, xferVars, progVars, monVars >>
    /\ UNCHANGED << h_url, h_extract, h_callback, h_dirs, h_zip, h_extracted,
                    h_downloads, h_progress >>

\* lines 218-238: one iteration of the loop over possible_folders; counting
\* the files of an existing directory either succeeds, and the call returns
\* the skip record, or raises, and the loop goes on
CheckFolder ==
    /\ h_pc = "check_folders"
    /\ \/ /\ h_dirs[h_idx] = "dir"
          /\ h_progress' = [h_progress EXCEPT !.status = "completed",
                                              !.percentage = 100]
          /\ h_result' =
                [kind |-> "skipped",
                 message |->
                     "Repository folder already exists, skipped download",
                 progress |-> to_dict(h_progress')]
          /\ h_pc' = "done"
          /\ h_idx' = h_idx
       \/ /\ IF h_idx < Cardinality(Candidates)
             THEN h_idx' = h_idx + 1 /\ h_pc' = h_pc
             ELSE h_idx' = h_idx /\ h_pc' = "download"
          /\ UNCHANGED << h_progress, h_result >>
    /\ UNCHANGED << pairVars, planVars, xferVars, progVars, monVars >>
    /\ UNCHANGED << h_url, h_extract, h_callback, h_parsed, h_dirs, h_zip,
                    h_extracted, h_downloads, h_exc >>

\* what file_downloader.download(..., overwrite=True, ...) can do: return
\* success with the archive installed, return a failure, or raise out of
\* its own handler when the progress callback raises there
DownloadOutcomes ==
    IF h_callback THEN {"success", "failure", "raises"}
    ELSE {"success", "failure"}

\* lines 241-257 and 287: download the archive
Download ==
    /\ h_pc = "download"
    /\ h_downloads' = h_downloads + 1
    /\ \E o \in DownloadOutcomes :
          CASE o = "success" ->
                  /\ h_zip' = TRUE
                  /\ IF h_extract
                     THEN h_pc' = "extracting" /\ h_result' = h_result
                     ELSE /\ h_pc' = "done"
                          /\ h_result' =
                                [kind |-> "success",
                                 message |-> "Download completed",
                                 progress |->
                                     [NewProgress EXCEPT
                                          !.status = "completed",
                                          !.percentage = 100]]
                  /\ h_exc' = h_exc
            [] o = "failure" ->
                  /\ h_zip' = h_zip
                  /\ h_pc' = "done"
                  /\ h_result' =
                        [kind |-> "failure",
                         message |-> "Download failed",
                         progress |->
                             [NewProgress EXCEPT !.status = "error"]]
                  /\ h_exc' = h_exc
            [] o = "raises" ->
                  /\ h_zip' = h_zip
                  /\ HubRaise("callback raised")
                  /\ h_result' = h_result
    /\ UNCHANGED << pairVars, planVars, xferVars, progVars, monVars >>
    /\ UNCHANGED << h_url, h_extract, h_callback, h_parsed, h_dirs, h_idx,
                    h_extracted, h_progress >>

\* lines 258-262: report the status "extracting"
Extracting ==
    /\ h_pc = "extracting"
    /\ h_progress' = [h_progress EXCEPT !.status = "extracting"]
    /\ \E o \in HubCallbackOutcomes :
          IF o = "raises"
          THEN HubRaise("callback raised")
          ELSE h_pc' = "extract" /\ h_exc' = h_exc
    /\ UNCHANGED << pairVars, planVars, xferVars, progVars, monVars >>
    /\ UNCHANGED << h_url, h_extract, h_callback, h_parsed, h_dirs, h_idx,
                    h_zip, h_extracted, h_downloads, h_result >>

\* lines 264-268: extractall into the destination folder, or the archive
\* cannot be read
Extract ==
    /\ h_pc = "extract"
    /\ \/ /\ h_extracted' = h_extracted + 1
          /\ h_pc' = "unlink"
          /\ h_exc' = h_exc
       \/ /\ HubRaise("BadZipFile")
          /\ h_extracted' = h_extracted
    /\ UNCHANGED << pairVars, planVars, xferVars, progVars, monVars >>
    /\ UNCHANGED << h_url, h_extract, h_callback, h_parsed, h_dirs, h_idx,
                    h_zip, h_downloads, h_progress, h_result >>

\* line 273: zip_path.unlink()
UnlinkZip ==
    /\ h_pc = "unlink"
    /\ h_zip' = FALSE
    /\ h_pc' = "completed"
    /\ UNCHANGED << pairVars, planVars, xferVars, progVars, monVars >>
    /\ UNCHANGED << h_url, h_extract, h_callback, h_parsed, h_dirs, h_idx,
                    h_extracted, h_downloads, h_progress, h_exc, h_result >>

\* lines 276-285: report "completed" and return success
Completed ==
    /\ h_pc = "completed"
    /\ h_progress' = [h_progress EXCEPT !.status = "completed"]
    /\ \E o \in HubCallbackOutcomes :
          IF o = "raises"
          THEN HubRaise("callback raised") /\ h_result' = h_result
          ELSE /\ h_pc' = "done"
               /\ h_exc' = h_exc
               /\ h_result' =
                     [kind |-> "success",
                      message |->
                          "Repository downloaded and extracted successfully",
                      progress |-> to_dict(h_progress')]
    /\ UNCHANGED << pairVars, planVars, xferVars, progVars, monVars >>
    /\ UNCHANGED << h_url, h_extract, h_callback, h_parsed, h_dirs, h_idx,
                    h_zip, h_extracted, h_downloads >>

\* lines 289-302: the handler; its callback is not protected
HubExcept ==
    /\ h_pc = "except"
    /\ h_progress' = [h_progress EXCEPT !.status = "error",
                                        !.error_message = h_exc]
    /\ \E o \in HubCallbackOutcomes :
          IF o = "raises"
          THEN h_pc' = "raised" /\ h_result' = h_result
          ELSE /\ h_pc' = "done"
               /\ h_result' = [kind |-> "failure",
                               message |-> h_exc,
                               progress |-> to_dict(h_progress')]
    /\ UNCHANGED << pairVars, planVars, xferVars, progVars, monVars >>
    /\ UNCHANGED << h_url, h_extract, h_callback, h_parsed, h_dirs, h_idx,
                    h_zip, h_extracted, h_downloads, h_exc >>

GitNext ==
    \/ RepoParse
    \/ CheckFolder
    \/ Download
    \/ Extracting
    \/ Extract
    \/ UnlinkZip
    \/ Completed
    \/ HubExcept

GitSpec == GitInit /\ [][GitNext]_vars

(***************************************************************************)
(* ProgSpec: DownloadProgress.update called by concurrent chunk workers.   *)
(* 'self.downloaded += delta' is a load, an addition and a store; what     *)
(* keeps two callers from interleaving them is self._lock.                 *)
(***************************************************************************)
MaxProgTotal == 50
MaxDelta == 2

ProgInit ==
    /\ PlanIdle
    /\ XferIdle
    /\ HubIdle
    /\ MonIdle
    /\ PairIdle
    /\ u_pc = [w \in Callers |-> "idle"]
    /\ u_delta = [w \in Callers |-> 0]
    /\ u_local = [w \in Callers |-> 0]
    /\ u_lock = 0
    /\ u_total \in 0..MaxProgTotal
    /\ u_downloaded = 0
    /\ u_percentage = 0
    /\ u_sum = 0

\* lines 195-196: a worker calls self.progress.update(size); the workers
\* together deliver at most the bytes of the file
UpdateCall(w) ==
    /\ u_pc[w] = "idle"
    /\ \E delta \in 1..MaxDelta :
          /\ u_sum + delta <= (IF u_total > 0 THEN u_total ELSE MaxProgTotal)
          /\ u_delta' = [u_delta EXCEPT ![w] = delta]
          /\ u_sum' = u_sum + delta
    /\ u_pc' = [u_pc EXCEPT ![w] = "lock"]
    /\ UNCHANGED << pairVars, planVars, xferVars, hubVars, monVars >>
    /\ UNCHANGED << u_local, u_lock, u_total, u_downloaded, u_percentage >>

\* line 109: with self._lock
lock_free(holder) == holder = 0

LockAcquire(w) ==
    /\ u_pc[w] = "lock"
    /\ lock_free(u_lock)
    /\ u_lock' = w
    /\ u_pc' = [u_pc EXCEPT ![w] = "load"]
    /\ UNCHANGED << pairVars, planVars, xferVars, hubVars, monVars >>
    /\ UNCHANGED << u_delta, u_local, u_total, u_downloaded, u_percentage,
                    u_sum >>

\* line 110: self.downloaded += downloaded_delta, the load
LoadDownloaded(w) ==
    /\ u_pc[w] = "load"
    /\ u_local' = [u_local EXCEPT ![w] = u_downloaded]
    /\ u_pc' = [u_pc EXCEPT ![w] = "store"]
    /\ UNCHANGED << pairVars, planVars, xferVars, hubVars, monVars >>
    /\ UNCHANGED << u_delta, u_lock, u_total, u_downloaded, u_percentage,
                    u_sum >>

\* line 110: the addition and the store
StoreDownloaded(w) ==
    /\ u_pc[w] = "store"
    /\ u_downloaded' = u_local[w] + u_delta[w]
    /\ u_pc' = [u_pc EXCEPT ![w] = "percentage"]
    /\ UNCHANGED << pairVars, planVars, xferVars, hubVars, monVars >>
    /\ UNCHANGED << u_delta, u_local, u_lock, u_total, u_percentage, u_sum >>

\* lines 111-112: the percentage, when the total is known
StorePercentage(w) ==
    /\ u_pc[w] = "percentage"
    /\ u_percentage' = IF u_total > 0
                       THEN PctOf(u_downloaded, u_total)
                       ELSE u_percentage
    /\ u_pc' = [u_pc EXCEPT ![w] = "unlock"]
    /\ UNCHANGED << pairVars, planVars, xferVars, hubVars, monVars >>
    /\ UNCHANGED << u_delta, u_local, u_lock, u_total, u_downloaded, u_sum >>

\* the end of the with block: the lock is released and update() returns
LockRelease(w) ==
    /\ u_pc[w] = "unlock"
    /\ u_lock' = 0
    /\ u_pc' = [u_pc EXCEPT ![w] = "idle"]
    /\ u_delta' = [u_delta EXCEPT ![w] = 0]
    /\ u_local' = [u_local EXCEPT ![w] = 0]
    /\ UNCHANGED << pairVars, planVars, xferVars, hubVars, monVars >>
    /\ UNCHANGED << u_total, u_downloaded, u_percentage, u_sum >>

ProgNext ==
    \/ \E w \in Callers : UpdateCall(w)
    \/ \E w \in Callers : LockAcquire(w)
    \/ \E w \in Callers : LoadDownloaded(w)
    \/ \E w \in Callers : StoreDownloaded(w)
    \/ \E w \in Callers : StorePercentage(w)
    \/ \E w \in Callers : LockRelease(w)

ProgSpec == ProgInit /\ [][ProgNext]_vars

(***************************************************************************)
(* MonSpec: monitor_progress (lines 362-376) running beside the workers'   *)
(* update() calls, with a progress callback passed.                        *)
(***************************************************************************)
MaxMonTotal == 4

MonInit ==
    /\ PlanIdle
    /\ PairIdle
    /\ XferIdle
    /\ HubIdle
    /\ u_pc = [w \in Callers |-> "idle"]
    /\ u_delta = [w \in Callers |-> 0]
    /\ u_local = [w \in Callers |-> 0]
    /\ u_lock = 0
    /\ u_total \in 1..MaxMonTotal
    /\ u_downloaded = 0
    /\ u_percentage = 0
    /\ u_sum = 0
    /\ m_pc = "poll"
    /\ m_stop = FALSE
    /\ m_last_pct = -1
    /\ m_observed = -1

\* line 366: whether the sampled percentage is reported
should_report(pct, last) == pct # last /\ pct >= 0

\* lines 364-370 and 376: one round of the loop up to the callback: leave
\* when told to stop, else sample the percentage, and if it is to be
\* reported print it and remember it; otherwise sleep
MonitorPoll ==
    /\ m_pc = "poll"
    /\ IF m_stop
       THEN /\ m_pc' = "exited"
            /\ m_last_pct' = m_last_pct
       ELSE IF should_report(u_percentage, m_last_pct)
       THEN /\ m_last_pct' = u_percentage
            /\ m_pc' = "callback"
       ELSE UNCHANGED << m_pc, m_last_pct >>
    /\ UNCHANGED << pairVars, planVars, xferVars, hubVars, progVars >>
    /\ UNCHANGED << m_stop, m_observed >>

\* lines 371-376: progress_callback(self.progress): the callback is handed
\* the progress object itself and reads its percentage when it runs; what
\* it raises is swallowed
MonitorCallback ==
    /\ m_pc = "callback"
    /\ m_observed' = u_percentage
    /\ m_pc' = "poll"
    /\ UNCHANGED << pairVars, planVars, xferVars, hubVars, progVars >>
    /\ UNCHANGED << m_stop, m_last_pct >>

\* lines 395 and 443: the orchestrating thread sets stop_monitor
StopMonitor ==
    /\ ~m_stop
    /\ m_stop' = TRUE
    /\ UNCHANGED << pairVars, planVars, xferVars, hubVars, progVars >>
    /\ UNCHANGED << m_pc, m_last_pct, m_observed >>

MonNext ==
    \/ ProgNext
    \/ MonitorPoll
    \/ MonitorCallback
    \/ StopMonitor

MonSpec == MonInit /\ [][MonNext]_vars

(***************************************************************************)
(* Properties.                                                             *)
(***************************************************************************)
\* the lengths of the declared ranges
RangeLens == [i \in Tasks |-> RangeLen(ranges[i])]

\* the sizes of the part files of the declared ranges
PartSizes == [i \in Tasks |-> Size(part[i])]

\* some chunk task returned False: its retries are exhausted
ChunkExhausted == \E i \in Tasks : wpc[i] = "false"

\* download() returned the record of the existing-file short-circuit
Skipped == pc = "done" /\ result.kind = "skipped"

\* the positions of the orchestrating thread between the as_completed loop
\* and the removal of the temp directory (lines 399-438)
AfterAwait ==
    {"verify_parts", "merge", "verify_merged", "par_unlink", "par_rename",
     "rm_temp"}

\* C1: when overwrite is false and the destination file exists, download()
\* returns without having issued any network request: the existing-file
\* check is reached before any HEAD or GET request was sent.
C1_SkipWithoutRequest ==
    (~overwrite /\ dest_before.exists) =>
        /\ (pc = "check_existing" => requests = {})
        /\ (Skipped => requests = {})

C3_PercentageMonotone ==
    [][/\ (pc # "start" => progress'.percentage >= progress.percentage)
       /\ (result'.kind = "success" => result'.progress.percentage = 100)]_vars

\* C4: the sum of the declared range lengths equals the declared total size;
\* once every part is verified the part files add up to that size; and the
\* file a parallel transfer installs at the destination has that size.
C4_InstalledSizeIsTotal ==
    /\ (pc \in (AfterAwait \ {"verify_parts", "rm_temp"}) =>
            /\ SumSeq(RangeLens) = total_size
            /\ SumSeq(PartSizes) = total_size)
    /\ ((use_parallel /\ (pc \in {"rm_temp", "finish"} \/ result.kind = "success")) =>
            /\ dest.exists
            /\ Size(dest) = SumSeq(RangeLens)
            /\ Size(dest) = total_size)

\* C4 witness: a parallel transfer of two unequal ranges returned success
C4_Witness ==
    /\ pc = "done"
    /\ result.kind = "success"
    /\ use_parallel
    /\ Len(ranges) = 2
    /\ RangeLen(ranges[1]) # RangeLen(ranges[2])

\* C5: download() never lets an exception reach its caller: every call ends
\* with a Result record, and a failure record carries the status 'error'
\* and a message.
C5_NeverRaises ==
    /\ pc # "raised"
    /\ (pc = "done" => result.kind \in {"success", "skipped", "failure"})
    /\ (result.kind = "failure" =>
            /\ result.progress.status = "error"
            /\ result.message # "none")

\* 'bytes' occurs in the header, whatever the case of its letters
HasBytesAnyCase(h) ==
    \E i \in 0..(Len(h) - 5) :
        /\ h[i + 1] \in {"b", "B"}
        /\ h[i + 2] \in {"y", "Y"}
        /\ h[i + 3] \in {"t", "T"}
        /\ h[i + 4] \in {"e", "E"}
        /\ h[i + 5] \in {"s", "S"}

\* C6: the parallel strategy is chosen if and only if the Accept-Ranges
\* header contains 'bytes' in any case and the total size is strictly
\* greater than the minimum part size; an unknown size (0) is single-stream.
C6_StrategyDecision ==
    p_pc \in {"decided", "planned"} =>
        /\ p_parallel <=> (HasBytesAnyCase(p_header) /\ p_total > p_min)
        /\ (p_total = 0 => ~p_parallel)

\* C6 witness: an upper-case header with a size above the minimum is parallel
C6_Witness ==
    /\ p_pc = "decided"
    /\ p_parallel
    /\ p_header = <<"B","Y","T","E","S">>
    /\ p_total = p_min + 1

\* C7: a parallel plan has min(ceiling, total div minimum) chunks; every
\* chunk but the last is total div chunks long, the last one is that long
\* plus the remainder.
C7_ChunkCountAndLengths ==
    p_pc = "planned" =>
        LET n == Len(p_ranges)
        IN  /\ n = Min(p_ceiling, p_total \div p_min)
            /\ \A i \in 1..(n - 1) : RangeLen(p_ranges[i]) = p_total \div n
            /\ RangeLen(p_ranges[n]) = (p_total \div n) + (p_total % n)

\* C7 witness: a plan of fewer chunks than the ceiling, with a remainder
C7_Witness ==
    /\ p_pc = "planned"
    /\ Len(p_ranges) >= 2
    /\ Len(p_ranges) < p_ceiling
    /\ p_total % Len(p_ranges) > 0

\* the scenario of a 100,000,000 byte file with the default configuration
Scenario ==
    /\ p_total = ScenarioTotal
    /\ p_min = DefaultMinPartSize
    /\ p_ceiling = DefaultMaxWorkers
    /\ p_header = <<"b","y","t","e","s">>

\* C8 as stated: in the scenario the plan is parallel with exactly 10
\* chunks of 10,000,000 bytes each.
C8_TenChunks ==
    /\ (Scenario /\ p_pc = "decided" => p_parallel)
    /\ (Scenario /\ p_pc = "planned" =>
            /\ Len(p_ranges) = 10
            /\ \A i \in 1..Len(p_ranges) : RangeLen(p_ranges[i]) = 10000000)

\* C8 amended: in the scenario the plan is parallel with exactly 9 chunks,
\* eight of 11,111,111 bytes and a last one of 11,111,112 bytes (the
\* default minimum part size is 10 * 1024 * 1024 = 10,485,760 bytes).
C8_NineChunks ==
    /\ (Scenario /\ p_pc = "decided" => p_parallel)
    /\ (Scenario /\ p_pc = "planned" =>
            /\ Len(p_ranges) = 9
            /\ \A i \in 1..8 : RangeLen(p_ranges[i]) = 11111111
            /\ RangeLen(p_ranges[9]) = 11111112)

\* C8 witness: the scenario was planned
C8_Witness == Scenario /\ p_pc = "planned"

\* C9 as stated: a chunk task is marked permanently failed only after 3
\* retries that followed its first failed attempt.
C9_ThreeRetries ==
    \A i \in Workers : wpc[i] = "false" => attempt[i] = 3

\* C9 amended: a chunk task makes at most 3 attempts, that is at most 2
\* retries after its first failed attempt; it returns False only when the
\* last of them failed, returns True as soon as one attempt succeeds, and
\* the orchestrating thread meets a failure only of a task that returned
\* False.
C9_TwoRetries ==
    /\ \A i \in Workers :
          /\ attempt[i] \in 0..2
          /\ (wpc[i] = "false" => attempt[i] = 2)
    /\ (pc \in {"shutdown", "par_except"}
          /\ exc = "One or more parts failed to download" => ChunkExhausted)
    /\ (~ChunkExhausted => exc # "One or more parts failed to download")

\* C9 witness: one task failed for good while another one succeeded on its
\* last retry
C9_Witness ==
    \E i, j \in Tasks :
        /\ wpc[i] = "false"
        /\ wpc[j] = "true"
        /\ attempt[j] = 2

\* C10: the parts are verified and merged only after every chunk task
\* returned True; once a chunk task has failed for good the staging file is
\* never opened.
C10_MergeAfterAllSucceeded ==
    /\ (pc \in AfterAwait => \A i \in Tasks : wpc[i] = "true")
    /\ (ChunkExhausted => pc \notin AfterAwait /\ ~tmp_out.exists)

\* C10 witness: the merge is reached after a task needed a retry
C10_Witness ==
    /\ pc = "merge"
    /\ Len(ranges) = 2
    /\ \E i \in Tasks : attempt[i] > 0

\* no part file, no temp directory and no staging file exists
NoTempFiles ==
    /\ ~temp_dir
    /\ \A i \in Workers : ~part[i].exists
    /\ ~tmp_out.exists

\* the total size inflated by 10%, rounded down to whole bytes
InflatedBy10(total) == total + (total \div 10)

\* C11: with a known total size the transfer fails with 'Insufficient disk
\* space' exactly when the free-space check could be performed and found
\* less free space than the total size inflated by 10%; a check that cannot
\* be performed lets the transfer proceed; the failure comes before any
\* part file, staging file or destination file is created.
C11_InsufficientSpace ==
    /\ [][pc = "disk_check" =>
            /\ total_size > 0
            /\ (pc' = "except" /\ exc' = "Insufficient disk space")
                 <=> (~disk_stat.unavailable
                        /\ disk_stat.free < InflatedBy10(total_size))
            /\ (disk_stat.unavailable
                  \/ disk_stat.free >= InflatedBy10(total_size))
                 => pc' = "strategy"]_vars
    /\ [][(exc' = "Insufficient disk space" /\ exc # exc')
             => pc = "disk_check"]_vars
    /\ [](exc = "Insufficient disk space" =>
             /\ NoTempFiles
             /\ dest = dest_before
             /\ pc \in {"except", "done", "raised"}
             /\ (pc = "done" =>
                    /\ result.kind = "failure"
                    /\ result.message = "Insufficient disk space"))

\* C11 witness: the check is performed for the large file with exactly as
\* much free space as the file is long, which the 10% margin rejects
C11_Witness ==
    /\ pc = "disk_check"
    /\ total_size = BigTotal
    /\ ~disk_stat.unavailable
    /\ disk_stat.free = total_size

\* C12: if the metadata probe fails (the HEAD request raises or is
\* rejected, and the GET that follows raises or is rejected as well) the
\* transfer does not fail for that reason and goes on with the conservative
\* plan: single stream, total size unknown (0).
C12_FailedProbeIsConservative ==
    /\ exc # "metadata request failed"
    /\ (("probe_get" \in requests /\ head_resp # "ok" /\ pc # "probe_get") =>
            /\ total_size = 0
            /\ ~use_parallel)

\* the positions of the orchestrating thread up to the existing-file check
UpToCheckExisting ==
    {"start", "head", "probe_get", "filename", "check_existing"}

\* C13: when overwrite is false and the destination file exists, download()
\* returns success with status 'completed', percentage 100, total_size and
\* downloaded both the size of the existing file; the file is unchanged and
\* no temp directory, part file or staging file is created.
C13_SkipResult ==
    /\ (Skipped =>
            /\ ~overwrite
            /\ dest_before.exists
            /\ result.progress = to_dict(progress)
            /\ result.progress.status = "completed"
            /\ result.progress.percentage = 100
            /\ result.progress.total_size = Size(dest_before)
            /\ result.progress.downloaded = Size(dest_before))
    /\ ((~overwrite /\ dest_before.exists) =>
            /\ dest = dest_before
            /\ NoTempFiles
            /\ pc \in UpToCheckExisting \cup {"done", "except", "raised"}
            /\ (pc = "done" /\ exc = "none" => Skipped))

\* C13 witness: download() returned the skip record
C13_Witness == Skipped /\ Size(dest) = Len(OldData)

\* the bytes a stream of n bytes from the start of the remote file delivers
Streamed(n) == [k \in 1..n |-> k - 1]

\* the probe gave neither a Content-Length nor Accept-Ranges: bytes
UnknownSize == total_size = 0 /\ ~accept_ranges

\* C14: when the probe yields neither Content-Length nor Accept-Ranges the
\* transfer takes the single-stream path, runs no disk-space check, does not
\* verify the size after the download, and installs the streamed bytes as
\* the destination file once the stream ended without error.
C14_UnknownSizePath ==
    /\ [][(UnknownSize /\ pc = "preflight") =>
             (pc' = "strategy" /\ disk_stat' = NoStat)]_vars
    /\ [][(UnknownSize /\ pc = "strategy") => pc' = "single_get"]_vars
    /\ [][(UnknownSize /\ pc = "single_verify") =>
             (pc' = "single_unlink" /\ tmp_out' = tmp_out)]_vars
    /\ [][(UnknownSize /\ pc = "single_rename" /\ pc' = "finish") =>
             (dest' = tmp_out /\ ~tmp_out'.exists)]_vars
    /\ []((UnknownSize /\ pc \in {"single_unlink", "single_rename"}) =>
             tmp_out = File(Streamed(Size(tmp_out))))
    /\ []((UnknownSize /\ "stream_get" \in requests
                       /\ result.kind = "success") =>
             dest = File(Streamed(Size(dest))))

\* C14 witness: a stream of unknown size was installed
C14_Witness ==
    /\ pc = "done"
    /\ result.kind = "success"
    /\ total_size = 0
    /\ ~accept_ranges
    /\ Size(dest) = MaxTotal

\* every part file exists and is exactly as long as its declared range
PartsExact ==
    \A i \in Tasks :
        /\ part[i].exists
        /\ Len(part[i].data) = ranges[i][2] - ranges[i][1] + 1

\* C18: if, after every chunk task reported success, a part file is missing
\* or not exactly as long as its range, the transfer is aborted before the
\* merge: the staging file is not written, the destination is not touched
\* and the Result is a failure.
C18_BadPartAbortsBeforeMerge ==
    /\ [][(pc = "verify_parts" /\ pc' # pc) =>
             IF PartsExact
             THEN pc' = "merge"
             ELSE /\ pc' = "par_except"
                  /\ exc' = "Part verification failed. Download incomplete."
                  /\ tmp_out' = tmp_out
                  /\ dest' = dest]_vars
    /\ [](exc = "Part verification failed. Download incomplete." =>
             /\ ~tmp_out.exists
             /\ dest = dest_before
             /\ pc \in {"par_except", "except", "done", "raised"}
             /\ (pc = "done" => result.kind = "failure"))

\* C18 witness: the verification failed with one part missing and another
\* part longer than its range
C18_Witness ==
    /\ exc = "Part verification failed. Download incomplete."
    /\ pc = "par_except"
    /\ \E i, j \in Tasks :
          /\ ~part[i].exists
          /\ part[j].exists
          /\ Size(part[j]) > RangeLen(ranges[j])

\* the positions at which the destination is replaced (lines 431-434 and
\* 495-498)
UnlinkPcs == {"par_unlink", "single_unlink"}
RenamePcs == {"par_rename", "single_rename"}

SizeFailures ==
    {"Merged file size verification failed.",
     "Downloaded file size verification failed."}

\* C19: on both paths, when the total size is known and the staging file
\* is not exactly that long, the staging file is deleted, the rename is
\* never performed and the transfer fails; the rename happens only after
\* the staging file passed the exact-length check.
C19_SizeGateBeforeRename ==
    /\ [][(pc \in {"verify_merged", "single_verify"} /\ total_size > 0
                /\ Size(tmp_out) # total_size) =>
             /\ ~tmp_out'.exists
             /\ pc' \in {"par_except", "except"}
             /\ exc' \in SizeFailures
             /\ dest' = dest]_vars
    /\ [][(dest' # dest /\ dest'.exists) => pc \in RenamePcs]_vars
    /\ []((pc \in UnlinkPcs \cup RenamePcs /\ total_size > 0) =>
             /\ tmp_out.exists
             /\ Size(tmp_out) = total_size)
    /\ [](exc \in SizeFailures =>
             /\ dest = dest_before
             /\ ~tmp_out.exists
             /\ pc \notin UnlinkPcs \cup RenamePcs
             /\ (pc = "done" => result.kind = "failure"))

\* C19 witness: a stream of known size ended one byte short, with a file at
\* the destination
C19_Witness ==
    /\ pc = "except"
    /\ exc = "Downloaded file size verification failed."
    /\ dest_before.exists
    /\ progress.downloaded = total_size - 1

\* C20: the destination is never a partially written file: it is the file
\* that was there before, or absent, or a completely written staging file
\* (of the declared size when the size is known); it changes only when the
\* orchestrating thread removes the old file or, with no file there,
\* renames the staging file to it.
C20_DestinationNeverPartial ==
    /\ [](\/ dest = dest_before
          \/ dest = NoFile
          \/ /\ dest = File(Streamed(Size(dest)))
             /\ (total_size > 0 => Size(dest) = total_size))
    /\ [][dest' # dest =>
             /\ pc' # pc
             /\ wpc' = wpc
             /\ \/ pc \in UnlinkPcs /\ dest.exists /\ dest' = NoFile
                \/ /\ pc \in RenamePcs
                   /\ ~dest.exists
                   /\ dest' = tmp_out
                   /\ ~tmp_out'.exists]_vars

\* C20 witness: a parallel transfer replaced the file that was at the
\* destination
C20_Witness ==
    /\ pc = "rm_temp"
    /\ use_parallel
    /\ dest_before.exists
    /\ dest = File(Streamed(total_size))

\* the '/'-separated parts of the path of a URL
UrlParts(url) == split(strip(urlparse(url).path))

\* the shape of a URL: raw-content host with user/repo/branch/path, a
\* releases/download path, a blob path, a bare user/repo path, or none of
\* these
ShapeOf(url) ==
    LET host == urlparse(url).netloc
        parts == UrlParts(url)
        n == Len(parts)
    IN  IF Contains(host, RawHost) /\ n >= 4 THEN "raw_file"
        ELSE IF ~Contains(host, GithubHost) THEN "unknown"
        ELSE IF n >= 5 /\ parts[3] = <<"releases">>
                    /\ parts[4] = <<"download">> THEN "release_file"
        ELSE IF n >= 5 /\ parts[3] = <<"blob">> THEN "repo_file"
        ELSE IF n = 2 THEN "repository"
        ELSE "unknown"

\* C15: parse_github_url never raises and gives every URL the type of its
\* shape; a URL of none of the four shapes gets the type 'unknown'.
C15_TypeIsShape ==
    h_parsed # NoParsed => h_parsed.type = ShapeOf(h_url)

\* C16: the effective transfer URL is the input URL itself for raw_file
\* and release_file, the raw-content URL made of the user, repo, branch and
\* remaining path segments of the input for repo_file, and the main-branch
\* archive URL of user/repo for repository.
C16_EffectiveUrl ==
    LET segs == UrlParts(h_url)
        url == h_parsed.download_url
    IN  /\ (h_parsed.type \in {"raw_file", "release_file"} => url = h_url)
        /\ (h_parsed.type = "repo_file" =>
                url = <<"https:", "/", "/", "raw", ".", "githubusercontent",
                        ".", "com", "/">>
                      \o join(SubSeq(segs, 1, 2)
                              \o SubSeq(segs, 4, Len(segs))))
        /\ (h_parsed.type = "repository" =>
                url = <<"https:", "/", "/", "github", ".", "com", "/">>
                      \o segs[1] \o <<"/">> \o segs[2]
                      \o <<"/", "archive", "/", "refs", "/", "heads", "/",
                           "main", ".", "zip">>)

\* C16 witness: a blob URL with a query and a file two directories deep was
\* rewritten
C16_Witness ==
    /\ h_parsed.type = "repo_file"
    /\ Len(UrlParts(h_url)) >= 6
    /\ Contains(h_url, <<"?">>)
    /\ h_parsed.download_url # h_url

\* extraction was requested for a repository URL and one of the expected
\* directories exists in the destination folder
DirExists ==
    /\ h_extract
    /\ h_parsed.type = "repository"
    /\ \E k \in Candidates : h_dirs[k] = "dir"

\* C17: with extraction requested, if one of the expected directories
\* exists the call returns the skip record without a download and without
\* an extraction; otherwise success is returned only after the archive was
\* downloaded, extracted and removed.
C17_SkipOrDownloadExtract ==
    /\ DirExists =>
          /\ h_downloads = 0
          /\ h_extracted = 0
          /\ h_pc \in {"check_folders", "done"}
          /\ (h_pc = "done" => h_result.kind = "skipped")
    /\ (h_extract /\ h_result.kind = "skipped") => DirExists
    /\ (h_extract /\ h_result.kind = "success") =>
          /\ ~DirExists
          /\ h_downloads = 1
          /\ h_extracted = 1
          /\ ~h_zip

AllUpdatesDone == \A w \in Callers : u_pc[w] = "idle"

\* C22: concurrent update() calls never lose an increment: when no call is
\* in progress the counter is the sum of all deltas passed; every percentage
\* update() stores is downloaded * 100 / total_size rounded down, and the
\* percentage stays 0 while the total is 0.
C22_NoLostUpdateExactPercentage ==
    /\ (AllUpdatesDone => u_downloaded = u_sum)
    /\ \A w \in Callers :
          (u_pc[w] = "unlock" /\ u_total > 0) =>
              u_percentage = (u_downloaded * 100) \div u_total
    /\ (u_total = 0 => u_percentage = 0)

\* the index of the range that contains offset k of the remote file
RangeOf(k) == CHOOSE i \in Tasks : ranges[i][1] <= k /\ k <= ranges[i][2]

\* C23: the merged file is the concatenation of the part files in range
\* order, whatever the order in which the workers finished: every byte at
\* offset k of the merged file is the byte the part of the range containing
\* k holds for k, and a part file is written only by the worker of its own
\* range.
C23_MergeInRangeOrder ==
    /\ []((pc \in {"verify_merged", "par_unlink", "par_rename"}
              /\ exc = "none") =>
             /\ Size(tmp_out) = total_size
             /\ \A k \in 0..(total_size - 1) :
                   /\ \E i \in Tasks : ranges[i][1] <= k /\ k <= ranges[i][2]
                   /\ tmp_out.data[k + 1]
                        = part[RangeOf(k)].data[k - ranges[RangeOf(k)][1] + 1]
                   /\ tmp_out.data[k + 1] = k)
    /\ [][\A i \in Workers :
             (part'[i] # part[i] /\ part'[i].exists) =>
                 /\ wpc[i] \in {"ready", "stream"}
                 /\ pc' = pc
                 /\ \A j \in Workers \ {i} :
                       part'[j] = part[j] /\ wpc'[j] = wpc[j]]_vars

\* C23 witness: the merge was written after as_completed had yielded the
\* task of the second range before the task of the first
C23_Witness ==
    /\ pc = "verify_merged"
    /\ seen = <<2, 1>>
    /\ tmp_out = File(Streamed(total_size))

\* C24: the monitor invokes the callback only when the percentage it
\* sampled differs from that of its previous report, and two consecutive
\* callback invocations never report the same percentage: neither in the
\* sampled value nor in the percentage the callback finds in the progress
\* object it is handed.
C24_ReportsDiffer ==
    /\ [][(m_pc = "poll" /\ m_pc' = "callback") =>
             m_last_pct' # m_last_pct]_vars
    /\ [][(m_pc = "callback" /\ m_pc' = "poll") =>
             m_observed' # m_observed]_vars

\* C25: whenever download() returns a failure for a transfer with
\* overwrite = true, the destination holds exactly what it held before the
\* call.
C25_FailureLeavesDestination ==
    (pc = "done" /\ overwrite /\ result.kind = "failure") =>
        dest = dest_before

\* C26: in every state of a transfer with known total size the progress
\* counter is at most the total size and the percentage is between 0 and
\* 100, also after a chunk attempt failed part-way and was started again.
C26_ProgressWithinTotal ==
    (pc \notin {"idle", "start"} /\ progress.total_size > 0) =>
        /\ progress.downloaded <= progress.total_size
        /\ 0 <= progress.percentage
        /\ progress.percentage <= 100

(***************************************************************************)
(* PairSpec: two calls of download(), each on a FileDownloader of its own  *)
(* (model_downloader.py creates one per call), into the same destination   *)
(* folder.  A path is the sequence of its components.  Only the temporary  *)
(* paths of each call are followed: which ones it created and has not yet  *)
(* renamed or removed.                                                     *)
(***************************************************************************)
MaxClock == 2

\* argument destination_folder, the same for both calls
DestinationFolder == << "models" >>

Filenames == { "a.bin", "b.bin" }

\* line 264: file_path = dest_path / filename
file_path_of(name) == Append(DestinationFolder, name)

\* line 353: dest_path / f".tmp_{filename}_{int(time.time())}"
temp_dir_of(name, now) ==
    Append(DestinationFolder, ".tmp_" \o name \o "_" \o ToString(now))

\* line 386: temp_dir / f"part_{i}"
p_path_of(dir, i) == Append(dir, "part_" \o ToString(i))

\* lines 414 and 456: file_path.with_suffix(file_path.suffix + '.tmp')
temp_output_of(path) ==
    [k \in 1..Len(path) |-> IF k = Len(path) THEN path[k] \o ".tmp"
                                             ELSE path[k]]

\* the paths at or below a directory
Below(dir, paths) ==
    { q \in paths : Len(q) >= Len(dir) /\ SubSeq(q, 1, Len(dir)) = dir }

PairInit ==
    /\ PlanIdle
    /\ XferIdle
    /\ HubIdle
    /\ ProgIdle
    /\ MonIdle
    /\ c_now = 0
    /\ t_pc = [t \in Transfers |-> "idle"]
    /\ t_filename \in [Transfers -> Filenames]
    /\ t_parallel \in [Transfers -> BOOLEAN]
    /\ t_temp_dir = [t \in Transfers |-> <<>>]
    /\ t_holds = [t \in Transfers |-> {}]

\* time passes between any two steps
ClockTick ==
    /\ c_now < MaxClock
    /\ c_now' = c_now + 1
    /\ UNCHANGED << t_pc, t_filename, t_parallel, t_temp_dir, t_holds >>
    /\ UNCHANGED << planVars, xferVars, hubVars, progVars, monVars >>

\* lines 322-330: the call reaches the branch on use_parallel
TransferBegin(t) ==
    /\ t_pc[t] = "idle"
    /\ t_pc' = [t_pc EXCEPT ![t] = IF t_parallel[t] THEN "mkdir"
                                                      ELSE "single_open"]
    /\ UNCHANGED << c_now, t_filename, t_parallel, t_temp_dir, t_holds >>
    /\ UNCHANGED << planVars, xferVars, hubVars, progVars, monVars >>

\* lines 353-354: the part directory is named after the filename and the
\* second of the clock; mkdir(exist_ok=True) accepts one that exists
TransferMkdir(t) ==
    /\ t_pc[t] = "mkdir"
    /\ t_temp_dir' = [t_temp_dir EXCEPT
                         ![t] = temp_dir_of(t_filename[t], c_now)]
    /\ t_holds' = [t_holds EXCEPT ![t] = @ \cup { t_temp_dir'[t] }]
    /\ t_pc' = [t_pc EXCEPT ![t] = "parts"]
    /\ UNCHANGED << c_now, t_filename, t_parallel >>
    /\ UNCHANGED << planVars, xferVars, hubVars, progVars, monVars >>

\* lines 385-388 and 191: a worker opens its part file for writing
TransferParts(t) ==
    /\ t_pc[t] = "parts"
    /\ t_holds' = [t_holds EXCEPT ![t] = @ \cup { p_path_of(t_temp_dir[t], 0) }]
    /\ t_pc' = [t_pc EXCEPT ![t] = "merge"]
    /\ UNCHANGED << c_now, t_filename, t_parallel, t_temp_dir >>
    /\ UNCHANGED << planVars, xferVars, hubVars, progVars, monVars >>

\* lines 414-419: the parts are merged into the staging file
TransferMerge(t) ==
    /\ t_pc[t] = "merge"
    /\ t_holds' = [t_holds EXCEPT
                      ![t] = @ \cup { temp_output_of(file_path_of(t_filename[t])) }]
    /\ t_pc' = [t_pc EXCEPT ![t] = "rename"]
    /\ UNCHANGED << c_now, t_filename, t_parallel, t_temp_dir >>
    /\ UNCHANGED << planVars, xferVars, hubVars, progVars, monVars >>

\* lines 456-464: the single stream opens the staging file for writing
TransferSingleOpen(t) ==
    /\ t_pc[t] = "single_open"
    /\ t_holds' = [t_holds EXCEPT
                      ![t] = @ \cup { temp_output_of(file_path_of(t_filename[t])) }]
    /\ t_pc' = [t_pc EXCEPT ![t] = "rename"]
    /\ UNCHANGED << c_now, t_filename, t_parallel, t_temp_dir >>
    /\ UNCHANGED << planVars, xferVars, hubVars, progVars, monVars >>

\* lines 434 and 498: the staging file becomes the destination file
TransferRename(t) ==
    /\ t_pc[t] = "rename"
    /\ t_holds' = [t_holds EXCEPT
                      ![t] = @ \ { temp_output_of(file_path_of(t_filename[t])) }]
    /\ t_pc' = [t_pc EXCEPT ![t] = IF t_parallel[t] THEN "rmtree" ELSE "done"]
    /\ UNCHANGED << c_now, t_filename, t_parallel, t_temp_dir >>
    /\ UNCHANGED << planVars, xferVars, hubVars, progVars, monVars >>

\* lines 436-438: the part directory is removed with all it holds
TransferRmtree(t) ==
    /\ t_pc[t] = "rmtree"
    /\ t_holds' = [t_holds EXCEPT ![t] = @ \ Below(t_temp_dir[t], @)]
    /\ t_pc' = [t_pc EXCEPT ![t] = "done"]
    /\ UNCHANGED << c_now, t_filename, t_parallel, t_temp_dir >>
    /\ UNCHANGED << planVars, xferVars, hubVars, progVars, monVars >>

PairNext ==
    \/ ClockTick
    \/ \E t \in Transfers :
          \/ TransferBegin(t)
          \/ TransferMkdir(t)
          \/ TransferParts(t)
          \/ TransferMerge(t)
          \/ TransferSingleOpen(t)
          \/ TransferRename(t)
          \/ TransferRmtree(t)

PairSpec == PairInit /\ [][PairNext]_vars

\* both calls are under way and were given the same filename
SameTarget(t1, t2) ==
    /\ t1 # t2
    /\ t_filename[t1] = t_filename[t2]
    /\ t_pc[t1] \notin {"idle", "done"}
    /\ t_pc[t2] \notin {"idle", "done"}

\* C27: two transfers that run at the same time into the same folder under
\* the same filename never both use one temporary path: neither the part
\* directory and its part files nor the '.tmp' staging file
C27_TempPathsDisjoint ==
    \A t1, t2 \in Transfers :
        SameTarget(t1, t2) => t_holds[t1] \cap t_holds[t2] = {}

\* the transfer is being given up because as_completed yielded a chunk
\* whose worker returned False
Aborted == exc = "One or more parts failed to download"

\* C28: when a parallel transfer is given up for a chunk that failed for
\* good, every chunk worker has returned by the time the handler that
\* removes the part directory runs, and so also when download() returns: no
\* worker is left that could write a part file or add to the counter
C28_WorkersDoneBeforeCleanup ==
    (Aborted /\ pc \in {"par_except", "except", "done", "raised"}) =>
        \A i \in Tasks : Returned(i)

\* a transfer given up for one chunk has returned, its part directory is
\* gone, and another chunk of it had been fetched in full
C28_Witness ==
    /\ Aborted
    /\ pc = "done"
    /\ ~temp_dir
    /\ \E i, j \in Tasks : wpc[i] = "false" /\ wpc[j] = "true"

\* C29: the ranges of a parallel plan partition the file: the first starts
\* at byte 0, each next one starts right after the one before it ends, the
\* last ends at the last byte, no two overlap; there are between 1 and the
\* ceiling of them and each is at least the minimum chunk size long
C29_RangesPartitionFile ==
    p_pc = "planned" =>
        LET n == Len(p_ranges)
        IN  /\ 1 <= n
            /\ n <= p_ceiling
            /\ p_ranges[1][1] = 0
            /\ \A i \in 1..(n - 1) : p_ranges[i + 1][1] = p_ranges[i][2] + 1
            /\ p_ranges[n][2] = p_total - 1
            /\ \A i, j \in 1..n : i < j => p_ranges[i][2] < p_ranges[j][1]
            /\ \A i \in 1..n : RangeLen(p_ranges[i]) >= p_min

\* a plan of three or more chunks whose first chunk is of the minimum size
\* and whose last chunk is longer
C29_Witness ==
    /\ p_pc = "planned"
    /\ Len(p_ranges) >= 3
    /\ RangeLen(p_ranges[1]) = p_min
    /\ RangeLen(p_ranges[Len(p_ranges)]) > p_min

(***************************************************************************)
(* FairSpec: the call of download() with its threads kept running.  The    *)
(* orchestrating thread takes its next step whenever it has one, and so    *)
(* does every chunk worker: each request of a worker or of the single      *)
(* stream ends in data, in an error or in a timeout (timeout=(60, 120),    *)
(* lines 187 and 459), and the sleep between two attempts ends (line 202). *)
(* The join of the monitor thread is bounded (timeout=1.0, lines 396 and   *)
(* 445), so no step of the orchestrating thread waits for the monitor.     *)
(***************************************************************************)
\* the steps of the thread that called download()
Orchestrator ==
    \/ Start \/ HeadProbe \/ ProbeGet \/ ResolveFilename \/ CheckExisting
    \/ Metadata \/ Preflight \/ PreflightCheck \/ Strategy \/ ParStart
    \/ AsCompleted \/ ExecutorShutdown \/ VerifyParts \/ Merge
    \/ VerifyMerged \/ ParUnlink \/ ParRename \/ RemoveTempDir \/ ParExcept
    \/ SingleGet \/ SingleWrite \/ SingleDone \/ SingleError \/ SingleVerify
    \/ SingleUnlink \/ SingleRename \/ Finish \/ Except

\* the steps of the pool thread running _download_part for chunk i
Worker(i) ==
    PartRequest(i) \/ PartWrite(i) \/ PartDone(i) \/ PartError(i)

FairSpec ==
    /\ Spec
    /\ WF_vars(Orchestrator)
    /\ \A i \in Workers : WF_vars(Worker(i))

\* download() has returned a dictionary
Returns == pc = "done" /\ result.kind # "none"

\* the monitor thread, if one was started, has been told to stop
MonitorStopped == m_pc # "none" => m_stop

\* C30: every call of download() eventually returns a record whose progress
\* status is 'completed' or 'error', whichever path it takes and also when
\* chunks use up their attempts, and by then the monitor thread, if one
\* was started, has been told to stop
C30_EventuallyReturns ==
    <>(/\ Returns
       /\ result.progress.status \in {"completed", "error"}
       /\ MonitorStopped)

\* the call ends: it returns a record as above or the exception of the
\* callback leaves it
C30_EventuallyEnds ==
    <>(\/ /\ Returns
          /\ result.progress.status \in {"completed", "error"}
          /\ MonitorStopped
       \/ pc = "raised" /\ MonitorStopped)

=============================================================================
